---- MODULE Spec2Model ----
(***************************************************************************)
(* The two-stage job orchestrator of the video-compression service         *)
(* (web/api/src/tasks): the Analyze handler FeatureCalculatorTask.run and  *)
(* the Transcode handler TranscodeVideoTask.run working on one row of the  *)
(* tasks table, under a broker that delivers a message at least once; the  *)
(* predictor's decision rule select_best_row as a pure function; the HTTP  *)
(* handlers of web/api/src/main.py over the tasks table, the object store  *)
(* and the job queue; and the frame analyzer analyze_file with the         *)
(* per-frame process_one_frame calls it submits to its thread pool.        *)
(***************************************************************************)
EXTENDS Integers, Sequences, FiniteSets, TLC

(* ------------------------------ bounds -------------------------------- *)

\* handler executions (deliveries of the broker) for the task
MaxExec == 3
\* byte sizes an encoded file may have: 1..MaxSize
MaxSize == 1
\* rows of a candidate table given to select_best_row
MaxRows == 3
\* transcode_video deliveries that overlap in SpecOverlap
MaxOverlap == 4
\* POST /tasks requests
MaxPosts == 2
\* rows of the tasks table given to GET /tasks
MaxTasks == 3
\* limit and skip of GET /tasks: 0..MaxPage
MaxPage == 3
\* the non-zero exit status of a failing encoder run
ExitStatus == 1
\* instants of the database clock: 0..MaxClock
MaxClock == 2
\* threads of a ThreadPoolExecutor() (max_workers, by default
\* min(32, os.cpu_count() + 4))
MaxWorkers == 2

(* ------------------------- program constants -------------------------- *)

QualityFloor == 95
FallbackCrf == 16
CrfFirst == 17
CrfLast == 30
QpFirst == 25
QpLast == 40

(* ------------------------------ state --------------------------------- *)

VARIABLES
    row,          \* the task's row of table "tasks"
    ex,           \* handler executions, in the order the broker delivered them
    chain,        \* Analyze results handed to the chained transcode_video job
    uploads,      \* keys encoded/<k>.mp4 successfully uploaded
    encoderCalls, \* encoder invocations: who ran it, its argument list, its exit
    tempFiles,    \* paths of the temporary output files that exist
    table,        \* select_best_row: the candidate table
    selected,     \* select_best_row: its result
    tasks,        \* HTTP API: the rows of table "tasks", the id being the index
    objects,      \* HTTP API: keys source/* present in the object store
    queue,        \* HTTP API: chains handed to the broker
    posts,        \* HTTP API: executions of POST /tasks
    response,     \* HTTP API: the response the last step sent, if any
    presigned,    \* HTTP API: the URLs the last step asked the object store for
    decode,       \* analyze_file: the decode loop, its pending futures
    ti,           \* analyze_file: the TICalculator instance and its invocations
    jobs,         \* analyze_file: the process_one_frame call of each frame
    rows,         \* analyze_file: the rows collected so far
    runs,         \* analyze_file: the processor executions so far
    utcnow,       \* the database clock, read by utcnow()
    updated_at,   \* the task's row: its column updated_at
    objectSizes,  \* the size of the file uploaded under each key of uploads
    offline       \* feature_calculator/calculate.py: analyze_file and its pool

vars == <<row, ex, chain, uploads, encoderCalls, tempFiles, table, selected,
          tasks, objects, queue, posts, response, presigned,
          decode, ti, jobs, rows, runs,
          utcnow, updated_at, objectSizes, offline>>

orchVars == <<row, ex, chain, uploads, encoderCalls, tempFiles>>
selVars == <<table, selected>>
apiVars == <<tasks, objects, queue, posts, response, presigned>>
anaVars == <<decode, ti, jobs, rows, runs>>
stampVars == <<utcnow, updated_at>>
storeVars == <<objectSizes>>
offVars == <<offline>>

(* ------------------------- the table "tasks" -------------------------- *)

\* Optional columns hold 0 (keys and sizes) or "null" (text) for SQL NULL.
Null == 0
NullText == "null"

TaskStatus == {"PENDING", "PROCESSING", "COMPLETED", "FAILED"}

\* The row POST /tasks commits: Task(source_file, source_size, status=PENDING).
Task == [status |-> "PENDING", output_file |-> Null, output_size |-> Null,
         error_message |-> NullText]

Columns == {"status", "output_file", "output_size", "error_message"}

(* ------------------------------ predictor ----------------------------- *)

\* FeatureCalculatorTask.CRFS and QP, and the grid PARAMS built from them.
CRFS == [i \in 1..(CrfLast - CrfFirst + 1) |-> CrfFirst + i - 1]
QP == [i \in 1..(QpLast - QpFirst + 1) |-> QpFirst + i - 1]

PARAMS ==
    [i \in 1..Len(CRFS) |-> [parameter |-> "crf", value |-> CRFS[i]]]
    \o [i \in 1..Len(QP) |-> [parameter |-> "qp", value |-> QP[i]]]

\* dataframe[dataframe['quality'] >= 95]: the labels of the rows kept.
HighQualityRows(dataframe) ==
    {i \in DOMAIN dataframe : dataframe[i].quality >= QualityFloor}

\* Series.idxmin(): the label of the first occurrence of the minimum.
idxmin(dataframe, labels) ==
    CHOOSE i \in labels :
        \A j \in labels :
            \/ dataframe[i].quality < dataframe[j].quality
            \/ dataframe[i].quality = dataframe[j].quality /\ i <= j

\* A plausible slip: the best-quality row instead of the cheapest one.
select_best_row_max(dataframe) ==
    IF HighQualityRows(dataframe) = {}
    THEN [parameter |-> "crf", value |-> FallbackCrf]
    ELSE LET i == CHOOSE i \in HighQualityRows(dataframe) :
                      \A j \in HighQualityRows(dataframe) :
                          dataframe[i].quality >= dataframe[j].quality
         IN  [parameter |-> dataframe[i].parameter, value |-> dataframe[i].value]

select_best_row(dataframe) ==
    IF HighQualityRows(dataframe) = {}
    THEN [parameter |-> "crf", value |-> FallbackCrf]
    ELSE LET r == dataframe[idxmin(dataframe, HighQualityRows(dataframe))]
         IN  [parameter |-> r.parameter, value |-> r.value]

\* The regression model is opaque: it may predict any quality column. The
\* columns drawn here give the rows of ProbeRows any quality of Qualities and
\* every other row of the grid the quality LowQuality.
LowQuality == 0
Qualities == {94, 95, 96}
ProbeRows == {Len(CRFS), Len(CRFS) + 1}

QualityColumns ==
    {[i \in 1..Len(PARAMS) |-> IF i \in ProbeRows THEN q[i] ELSE LowQuality] :
        q \in [ProbeRows -> Qualities]}

\* df['quality'] = predicted_metrics
WithQuality(df, predicted_metrics) ==
    [i \in DOMAIN df |->
        [parameter |-> df[i].parameter, value |-> df[i].value,
         quality |-> predicted_metrics[i]]]

\* What the Analyze handler returns; "error" is "" when there is none.
Output(parameter, value, status, error) ==
    [parameter |-> parameter, value |-> value, status |-> status, error |-> error]

NoOutput == Output("none", 0, "none", "")

\* A plausible slip: the status the decision rule's third case is given in
\* the design, which encode_params does not know.
PredictedParametersFallbackStatus(X_data, predicted_metrics) ==
    LET df == WithQuality(X_data, predicted_metrics)
        best == select_best_row(df)
    IN  Output(best.parameter, best.value,
               IF HighQualityRows(df) = {} THEN "success_fallback" ELSE "success",
               "")

\* predict_parameters(X_data) followed by predicted_parameters['status'] = 'success'
PredictedParameters(X_data, predicted_metrics) ==
    LET best == select_best_row(WithQuality(X_data, predicted_metrics))
    IN  Output(best.parameter, best.value, "success", "")

\* The results run can get from the prediction step, each with whether the
\* predicted column had a row at or above the floor.
Predictions ==
    {[output |-> PredictedParameters(PARAMS, predicted_metrics),
      highRows |-> \E i \in 1..Len(PARAMS) : predicted_metrics[i] >= 95] :
        predicted_metrics \in QualityColumns}

\* return {'error': ..., 'status': 'failed'}
FailedOutput(error) == Output("none", 0, "failed", error)

(* ------------------------------ encoder ------------------------------- *)

\* f'{params["value"]}' of a Python int: its decimal numeral.
format_value(value) == ToString(value)

\* A plausible slip: no rate control on the failed path.
encode_params_no_default(params) ==
    <<"-c:v", "libx265", "-preset", "veryslow">> \o
    (IF params.status = "success"
     THEN <<"-" \o params.parameter, format_value(params.value)>>
     ELSE << >>)

\* TranscodeVideoTask.encode_params: -c:v libx265 -preset veryslow followed
\* by the rate control, as the list of strings handed to the encoder.
encode_params(params) ==
    <<"-c:v", "libx265", "-preset", "veryslow">> \o
    (IF params.status = "failed"
     THEN <<"-crf", "16">>
     ELSE IF params.status = "success"
          THEN <<"-" \o params.parameter, format_value(params.value)>>
          ELSE << >>)

\* self.ffmpeg_bin: what shutil.which resolved on the worker.
ffmpeg_bin == "/usr/bin/ffmpeg"

\* generate_presigned_url('get_object', Key=task.source_file, ExpiresIn=86400)
presigned_url == "https://s3/bucket/source/video.mp4?X-Amz-Expires=86400"

\* NamedTemporaryFile(suffix='.mp4').name: every execution gets its own.
output_file_name(d) == "/tmp/tmp" \o ToString(d) \o ".mp4"

\* encode_video: input_params
input_params(input_path) ==
    <<"-seekable", "1",
      "-reconnect_delay_max", "300",
      "-multiple_requests", "1",
      "-reconnect_on_http_error", "429,5xx",
      "-reconnect_on_network_error", "1",
      "-i", input_path>>

\* encode_video: global_params
global_params(output_path) ==
    <<"-codec:a", "copy", "-sn", "-y", "-hide_banner", "-loglevel", "error",
      output_path>>

\* A plausible slip: the codec options placed before the input options.
CommandCodecFirst(input_path, output_path, params) ==
    <<ffmpeg_bin>> \o params \o input_params(input_path) \o
    global_params(output_path)

\* encode_video: the argument list given to subprocess.run
Command(input_path, output_path, params) ==
    <<ffmpeg_bin>> \o input_params(input_path) \o params \o
    global_params(output_path)

\* What a failing encoder run wrote to its standard error (capture_output).
EncoderStderr == "Invalid data found when processing input"

\* repr of a list of strings, as '%s' % cmd prints it
RECURSIVE ReprItems(_)
ReprItems(args) ==
    IF Len(args) = 0 THEN ""
    ELSE IF Len(args) = 1 THEN "'" \o args[1] \o "'"
    ELSE "'" \o args[1] \o "', " \o ReprItems(Tail(args))

\* str(e) of subprocess.CalledProcessError(returncode, cmd, output, stderr)
\* for a positive returncode.
StrCalledProcessError(cmd, returncode) ==
    "Command '[" \o ReprItems(cmd) \o "]' returned non-zero exit status " \o
    ToString(returncode) \o "."

\* A plausible slip: the temporary file is left behind.
CloseTemporaryFileKept(files, name) == files

\* Leaving "with NamedTemporaryFile(suffix='.mp4') as output_file": the file
\* is closed and deleted, however the block was left.
CloseTemporaryFile(files, name) == files \ {name}

(* ------------------------- handler executions ------------------------- *)

\* One execution of a handler. task is the ORM object the handler holds
\* (detached after the claim), base the row session.merge loaded, seen the
\* status the claim's SELECT returned, failed the step that failed, output
\* the Analyze result (Analyze) or the encode_params argument (Transcode),
\* highRows whether the predicted column had a row at or above the floor,
\* loaded_at the value of task.updated_at while that attribute is loaded
\* (the empty set once it is expired), base_at the updated_at of base,
\* session whether a database transaction of the execution is open.
Execution(kind, output) ==
    [kind |-> kind, pc |-> "claim", task |-> Task, base |-> Task,
     seen |-> "none", failed |-> "none", output |-> output, highRows |-> FALSE,
     loaded_at |-> {}, base_at |-> 0, session |-> "closed"]

Ended == {"returned", "raised", "crashed", "stopped", "redelivered"}

Execs == 1..Len(ex)

\* The handler body: from the committed claim to the handler's end.
InBody(d) ==
    ex[d].pc \in {"presign", "analyze", "aggregate", "predict",
                  "encode", "upload", "merge", "commit"}

\* What is left of an execution that has ended: its locals are gone.
End(e, pc) ==
    [e EXCEPT !.pc = pc, !.task = Task, !.base = Task,
              !.loaded_at = {}, !.base_at = 0, !.session = "closed"]

\* A plausible slip: only COMPLETED counts as finished.
IsFinishedCompletedOnly(status) == status = "COMPLETED"

\* task.status in (TaskStatus.COMPLETED, TaskStatus.FAILED)
IsFinished(status) == status \in {"COMPLETED", "FAILED"}

\* task.status = TaskStatus.PROCESSING; session.commit(): the unit of work
\* writes the columns whose value differs from the loaded one, so a row read
\* as PROCESSING gets no UPDATE.
ClaimCommit(current, loaded) ==
    IF loaded.status # "PROCESSING"
    THEN [current EXCEPT !.status = "PROCESSING"]
    ELSE current

\* with self.session_maker.begin() as session: the transaction begins.
EnterBegin(session) == "open"

\* A plausible slip: the handler's body indented into the with block, so
\* that the session outlives the claim.
ExitBeginLater(session) == session

\* Leaving the with block of session_maker.begin(): the transaction is over
\* and the session closed.
ExitBegin(session) == "closed"

\* Whether the claim's commit emits an UPDATE statement.
ClaimEmits(loaded) == loaded.status # "PROCESSING"

\* Whether the commit after session.merge(task) emits an UPDATE statement.
MergeEmits(task, base) == \E c \in Columns : task[c] # base[c]

\* updated_at = mapped_column(..., server_default=utcnow(), onupdate=utcnow()):
\* an UPDATE statement that does not set the column itself sets it to the
\* clock; a statement that sets it (explicit is the value) stores that
\* value; a commit that emits no statement leaves the column as it is.
onupdate(current_at, emitted, explicit, clock) ==
    IF explicit # {} THEN CHOOSE at \in explicit : TRUE
    ELSE IF emitted THEN clock
    ELSE current_at

\* The attribute task.updated_at after the claim's commit: the flush of an
\* UPDATE expires the server-generated column on the object, and with
\* expire_on_commit=False nothing else does.
AfterClaim(loaded_at, emitted) == IF emitted THEN {} ELSE loaded_at

\* session.merge copies task.updated_at, when loaded, onto the object it
\* loaded; the copy is a change, and part of the UPDATE, when it differs.
MergedAt(loaded_at, base_at) == loaded_at \ {base_at}

\* except Exception as e: task.status = FAILED; task.error_message = str(e)
FailedTask(task, error) ==
    [task EXCEPT !.status = "FAILED", !.error_message = error]

\* else: task.status = COMPLETED; task.output_file = output_key;
\*       task.output_size = Path(output_file.name).stat().st_size
CompletedTask(task, output_key, size) ==
    [task EXCEPT !.status = "COMPLETED", !.output_file = output_key,
                 !.output_size = size]

\* session.merge(task); session.commit(): merge copies every loaded attribute
\* of the detached task onto the object it loaded (base), and the commit
\* writes the columns that differ from base onto the row as it is then.
MergeCommit(current, task, base) ==
    [c \in Columns |-> IF task[c] # base[c] THEN task[c] ELSE current[c]]

(* ------------------------------ the broker ---------------------------- *)

\* The broker delivers the feature_calculator message of the task; it may
\* deliver it again at any time (at-least-once delivery).
DeliverAnalyze ==
    /\ Len(ex) < MaxExec
    /\ ex' = Append(ex, Execution("analyze", NoOutput))
    /\ UNCHANGED <<row, chain, uploads, encoderCalls, tempFiles, selVars, apiVars, anaVars, stampVars, storeVars, offVars>>

\* A plausible slip: the two jobs enqueued side by side, so that
\* transcode_video is delivered with no Analyze result.
DeliverTranscodeUnchained(n) ==
    /\ Len(ex) < n
    /\ ex' = Append(ex, Execution("transcode", NoOutput))
    /\ UNCHANGED <<row, chain, uploads, encoderCalls, tempFiles, selVars, apiVars, anaVars, stampVars, storeVars, offVars>>

\* The chained transcode_video message carries an Analyze result; the broker
\* delivers it while fewer than n executions have been started.
DeliverTranscodeUpTo(n) ==
    /\ Len(ex) < n
    /\ \E params \in chain :
           ex' = Append(ex, Execution("transcode", params))
    /\ UNCHANGED <<row, chain, uploads, encoderCalls, tempFiles, selVars, apiVars, anaVars, stampVars, storeVars, offVars>>

DeliverTranscode == DeliverTranscodeUpTo(MaxExec)

\* The worker process dies in the middle of a handler.
Crash(d) ==
    /\ ex[d].pc \notin Ended
    /\ ex' = [ex EXCEPT ![d] = End(@, "crashed")]
    /\ UNCHANGED <<row, chain, uploads, encoderCalls, tempFiles, selVars, apiVars, anaVars, stampVars, storeVars, offVars>>

(* ------------------------- FeatureCalculatorTask.run ------------------ *)

\* session.query(Task).filter_by(id=task_id).first() and the finished check.
AnalyzeClaim(d) ==
    /\ ex[d].kind = "analyze" /\ ex[d].pc = "claim"
    /\ IF IsFinished(row.status)
       THEN /\ ex' = [ex EXCEPT ![d] =
                        [End(@, "returned") EXCEPT
                            !.seen = row.status,
                            !.output = FailedOutput("Task is finished")]]
            /\ chain' = chain \cup {FailedOutput("Task is finished")}
       ELSE /\ ex' = [ex EXCEPT ![d] =
                        [@ EXCEPT !.pc = "claim_commit", !.task = row,
                                  !.seen = row.status,
                                  !.loaded_at = {updated_at},
                                  !.session = EnterBegin(@)]]
            /\ UNCHANGED chain
    /\ UNCHANGED <<row, uploads, encoderCalls, tempFiles, selVars, apiVars, anaVars, stampVars, storeVars, offVars>>

\* task.status = TaskStatus.PROCESSING; session.commit()
AnalyzeClaimCommit(d) ==
    /\ ex[d].kind = "analyze" /\ ex[d].pc = "claim_commit"
    /\ row' = ClaimCommit(row, ex[d].task)
    /\ updated_at' = onupdate(updated_at, ClaimEmits(ex[d].task), {}, utcnow)
    /\ ex' = [ex EXCEPT ![d] =
                [@ EXCEPT !.pc = "presign", !.task = Task, !.loaded_at = {},
                          !.session = ExitBegin(@)]]
    /\ UNCHANGED <<chain, uploads, encoderCalls, tempFiles, selVars, apiVars, anaVars, utcnow, storeVars, offVars>>

\* self.s3_client.generate_presigned_url(...), outside any try.
AnalyzePresign(d) ==
    /\ ex[d].kind = "analyze" /\ ex[d].pc = "presign"
    /\ \/ ex' = [ex EXCEPT ![d] = [@ EXCEPT !.pc = "analyze"]]
       \/ ex' = [ex EXCEPT ![d] =
                    [End(@, "raised") EXCEPT !.failed = "presign"]]
    /\ UNCHANGED <<row, chain, uploads, encoderCalls, tempFiles, selVars, apiVars, anaVars, stampVars, storeVars, offVars>>

\* try: data = self.analyze_file(presigned_url)
\* except Exception as e: return {'error': str(e), 'status': 'failed'}
AnalyzeFile(d) ==
    /\ ex[d].kind = "analyze" /\ ex[d].pc = "analyze"
    /\ \/ /\ ex' = [ex EXCEPT ![d] = [@ EXCEPT !.pc = "aggregate"]]
          /\ UNCHANGED chain
       \/ /\ ex' = [ex EXCEPT ![d] =
                       [End(@, "returned") EXCEPT
                           !.failed = "analysis",
                           !.output = FailedOutput("analysis error")]]
          /\ chain' = chain \cup {FailedOutput("analysis error")}
    /\ UNCHANGED <<row, uploads, encoderCalls, tempFiles, selVars, apiVars, anaVars, stampVars, storeVars, offVars>>

\* pd.DataFrame(data).agg(...) ... merge(big_features, how='cross'), outside
\* any try: it raises when a column is missing (a source with no frame).
AnalyzeAggregate(d) ==
    /\ ex[d].kind = "analyze" /\ ex[d].pc = "aggregate"
    /\ \/ ex' = [ex EXCEPT ![d] = [@ EXCEPT !.pc = "predict"]]
       \/ ex' = [ex EXCEPT ![d] =
                    [End(@, "raised") EXCEPT !.failed = "aggregate"]]
    /\ UNCHANGED <<row, chain, uploads, encoderCalls, tempFiles, selVars, apiVars, anaVars, stampVars, storeVars, offVars>>

\* predicted_parameters = self.predict_parameters(X_data), outside any try
\* (the model is loaded on first use and may fail to load or to predict);
\* predicted_parameters['status'] = 'success'; return predicted_parameters
AnalyzePredict(d) ==
    /\ ex[d].kind = "analyze" /\ ex[d].pc = "predict"
    /\ \/ \E p \in Predictions :
              /\ ex' = [ex EXCEPT ![d] =
                          [End(@, "returned") EXCEPT
                              !.output = p.output, !.highRows = p.highRows]]
              /\ chain' = chain \cup {p.output}
       \/ /\ ex' = [ex EXCEPT ![d] =
                       [End(@, "raised") EXCEPT !.failed = "predict"]]
          /\ UNCHANGED chain
    /\ UNCHANGED <<row, uploads, encoderCalls, tempFiles, selVars, apiVars, anaVars, stampVars, storeVars, offVars>>

(* --------------------------- TranscodeVideoTask.run ------------------- *)

\* session.query(Task).filter_by(id=task_id).first() and the finished check.
TranscodeClaim(d) ==
    /\ ex[d].kind = "transcode" /\ ex[d].pc = "claim"
    /\ IF IsFinished(row.status)
       THEN ex' = [ex EXCEPT ![d] =
                      [End(@, "returned") EXCEPT !.seen = row.status]]
       ELSE ex' = [ex EXCEPT ![d] =
                      [@ EXCEPT !.pc = "claim_commit", !.task = row,
                                !.seen = row.status,
                                !.loaded_at = {updated_at},
                                !.session = EnterBegin(@)]]
    /\ UNCHANGED <<row, chain, uploads, encoderCalls, tempFiles, selVars, apiVars, anaVars, stampVars, storeVars, offVars>>

\* task.status = TaskStatus.PROCESSING; session.commit(); session.expunge(task)
TranscodeClaimCommit(d) ==
    /\ ex[d].kind = "transcode" /\ ex[d].pc = "claim_commit"
    /\ row' = ClaimCommit(row, ex[d].task)
    /\ updated_at' = onupdate(updated_at, ClaimEmits(ex[d].task), {}, utcnow)
    /\ ex' = [ex EXCEPT ![d] =
                [@ EXCEPT !.pc = "presign", !.task.status = "PROCESSING",
                          !.loaded_at =
                              AfterClaim(@, ClaimEmits(ex[d].task)),
                          !.session = ExitBegin(@)]]
    /\ UNCHANGED <<chain, uploads, encoderCalls, tempFiles, selVars, apiVars, anaVars, utcnow, storeVars, offVars>>

\* encode_params = self.encode_params(encode_params); output_key = uuid4;
\* self.s3_client.generate_presigned_url(...), outside any try; then
\* "with NamedTemporaryFile(suffix='.mp4') as output_file" creates the file.
TranscodePresign(d) ==
    /\ ex[d].kind = "transcode" /\ ex[d].pc = "presign"
    /\ \/ /\ ex' = [ex EXCEPT ![d] = [@ EXCEPT !.pc = "encode"]]
          /\ tempFiles' = tempFiles \cup {output_file_name(d)}
       \/ /\ ex' = [ex EXCEPT ![d] =
                       [End(@, "raised") EXCEPT !.failed = "presign"]]
          /\ UNCHANGED tempFiles
    /\ UNCHANGED <<row, chain, uploads, encoderCalls, selVars, apiVars, anaVars, stampVars, storeVars, offVars>>

\* self.encode_video(presigned_url, output_file.name, encode_params): the
\* encoder runs and exits zero, or exits non-zero: CalledProcessError e,
\* logging.error(e.stderr), raise RuntimeError(str(e)), caught by run, which
\* sets FAILED and error_message = str(e) and leaves the with block.
TranscodeEncode(d) ==
    /\ ex[d].kind = "transcode" /\ ex[d].pc = "encode"
    /\ LET cmd == Command(presigned_url, output_file_name(d),
                          encode_params(ex[d].output))
       IN  \/ /\ encoderCalls' = encoderCalls \cup
                     {[by |-> d, args |-> cmd, returncode |-> 0,
                       stderr |-> ""]}
              /\ ex' = [ex EXCEPT ![d] = [@ EXCEPT !.pc = "upload"]]
              /\ UNCHANGED tempFiles
           \/ /\ encoderCalls' = encoderCalls \cup
                     {[by |-> d, args |-> cmd, returncode |-> ExitStatus,
                       stderr |-> EncoderStderr]}
              /\ ex' = [ex EXCEPT ![d] =
                          [@ EXCEPT !.pc = "merge", !.failed = "encode",
                                    !.task = FailedTask(@,
                                        StrCalledProcessError(cmd, ExitStatus))]]
              /\ tempFiles' = CloseTemporaryFile(tempFiles, output_file_name(d))
    /\ UNCHANGED <<row, chain, uploads, selVars, apiVars, anaVars, stampVars, storeVars, offVars>>

\* upload_file stores the file, of the size it has, under the key.
PutObject(sizes, key, size) ==
    [k \in DOMAIN sizes \cup {key} |-> IF k = key THEN size ELSE sizes[k]]

\* self.s3_client.upload_file(Filename, Bucket, Key=output_key): the key of
\* execution d is encoded/<d>.mp4 (uuid4 gives every execution its own);
\* either way the with block is left.
TranscodeUpload(d) ==
    /\ ex[d].kind = "transcode" /\ ex[d].pc = "upload"
    /\ \/ \E size \in 1..MaxSize :
              /\ uploads' = uploads \cup {d}
              /\ objectSizes' = PutObject(objectSizes, d, size)
              /\ ex' = [ex EXCEPT ![d] =
                          [@ EXCEPT !.pc = "merge",
                                    !.task = CompletedTask(@, d, size)]]
       \/ /\ ex' = [ex EXCEPT ![d] =
                       [@ EXCEPT !.pc = "merge", !.failed = "upload",
                                 !.task = FailedTask(@, "upload error")]]
          /\ UNCHANGED <<uploads, objectSizes>>
    /\ tempFiles' = CloseTemporaryFile(tempFiles, output_file_name(d))
    /\ UNCHANGED <<row, chain, encoderCalls, selVars, apiVars, anaVars, stampVars, offVars>>

\* with self.session_maker.begin() as session: session.merge(task)
TranscodeMerge(d) ==
    /\ ex[d].kind = "transcode" /\ ex[d].pc = "merge"
    /\ ex' = [ex EXCEPT ![d] =
                [@ EXCEPT !.pc = "commit", !.base = row,
                          !.base_at = updated_at,
                          !.session = EnterBegin(@)]]
    /\ UNCHANGED <<row, chain, uploads, encoderCalls, tempFiles, selVars, apiVars, anaVars, stampVars, storeVars, offVars>>

\* session.commit(); return {'task_id': ..., 'status': ...}. The commit may
\* fail (the database is unreachable), and then the handler raises.
TranscodeCommit(d) ==
    /\ ex[d].kind = "transcode" /\ ex[d].pc = "commit"
    /\ \/ /\ row' = MergeCommit(row, ex[d].task, ex[d].base)
          /\ updated_at' =
                 onupdate(updated_at, MergeEmits(ex[d].task, ex[d].base),
                          MergedAt(ex[d].loaded_at, ex[d].base_at), utcnow)
          /\ ex' = [ex EXCEPT ![d] = End(@, "returned")]
       \/ /\ ex' = [ex EXCEPT ![d] =
                       [End(@, "raised") EXCEPT !.failed = "write"]]
          /\ UNCHANGED <<row, updated_at, storeVars, offVars>>
    /\ UNCHANGED <<chain, uploads, encoderCalls, tempFiles, selVars, apiVars, anaVars, utcnow, storeVars, offVars>>

\* The worker is shut down by a signal and does not wait for the handler (a
\* cold shutdown, or the kill that ends a grace period): run installs no
\* signal handler and has no finally clause, so it ends where it stands.
Shutdown(d) ==
    /\ ex[d].pc \notin Ended
    /\ ex' = [ex EXCEPT ![d] = End(@, "stopped")]
    /\ UNCHANGED <<row, chain, uploads, encoderCalls, tempFiles, selVars, apiVars, anaVars, stampVars, storeVars, offVars>>

(* --------------------- FeatureCalculatorTask.analyze_file ------------- *)

\* frames of the video analysed in SpecAnalyze
MaxFrames == 2
\* frames of the video analysed in SpecFlow
MaxFlowFrames == 11
\* if len(pending) > 10
PendingLimit == 10

\* A matrix, by the extractor that made it and the frame it was made from.
Matrix(name, frame) == [name |-> name, frame |-> frame]

\* frame - self.prev_frame: the matrix of one frame minus that of another.
Difference(frame, prev) == [name |-> "TI", frame |-> frame, prev |-> prev]

\* Python's None, and a key a dict does not hold.
None == [name |-> "None"]
Absent == [name |-> "absent"]

\* frame.to_ndarray() of the frame enumerate(decoder) numbers idx
frame_data(idx) == Matrix("frame", idx)

\* The processors of analyze_file that lead to SI_mean and TI_mean; the
\* other extractors and calculators of the registry hang on Y in the same
\* way as SI and SI_mean do.
single_extractors == {"Y", "TI"}
extractors == {"SI"}
feature_calculators == {"SI_mean", "TI_mean"}

\* processors = {p.name(): p for p in chain(single_extractors, extractors,
\*                                          feature_calculators)}
processors == single_extractors \cup extractors \cup feature_calculators

\* isinstance(processor, Extractor)
IsExtractor(name) == name \in single_extractors \cup extractors

\* MeanCalculator('SI'), MeanCalculator('TI'): the matrix a calculator reads.
matrix_name(name) == IF name = "SI_mean" THEN "SI" ELSE "TI"

\* Extractor.depends_on() returns None, the key of the decoded frame;
\* SIExtractor and TICalculator depend on Y; a calculator depends on the
\* matrix it was made for.
depends_on(name) ==
    CASE name = "Y" -> "None"
      [] name = "TI" -> "Y"
      [] name = "SI" -> "Y"
      [] name \in feature_calculators -> matrix_name(name)

\* dependencies = {p.name(): [p.depends_on()] if p.depends_on() else []
\*                 for p in chain(extractors, feature_calculators)}
dependencies ==
    [name \in extractors \cup feature_calculators |->
        IF depends_on(name) # "None" THEN {depends_on(name)} ELSE {}]

\* TopologicalSorter(dependencies): a node for every key and for every
\* predecessor a key names.
GraphNodes == DOMAIN dependencies \cup UNION {dependencies[n] : n \in DOMAIN dependencies}

Predecessors(name) ==
    IF name \in DOMAIN dependencies THEN dependencies[name] ELSE {}

\* The keys of extractors_results: None and the names of the extractors.
Keys == {"None"} \cup single_extractors \cup extractors

\* A stateless extractor (YExtractor, SIExtractor) on a matrix.
extract(name, frame) == Matrix(name, frame.frame)

\* MeanCalculator.feed_frame: the statistic of the matrix, None for None.
feed_frame(name, matrix) ==
    IF matrix = None THEN None ELSE [name |-> name, of |-> matrix]

\* TICalculator.extract once self.prev_frame has been read:
\* None if it was None, else frame - self.prev_frame.
TIResult(frame, prev_frame) ==
    IF prev_frame = None THEN None ELSE Difference(frame.frame, prev_frame.frame)

\* One execution of a processor: the frame whose process it ran for, the
\* thread that ran it, the matrix it was given and what it returned.
Run(name, idx, thread, matrix, result) ==
    [processor |-> name, frame |-> idx, thread |-> thread,
     matrix |-> matrix, result |-> result]

\* A node of the graph of one process_one_frame call and its future.
Node(st, matrix, local, result) ==
    [st |-> st, matrix |-> matrix, local |-> local, result |-> result]

IdleNode == Node("idle", Absent, Absent, Absent)

\* item and extractors_results of one frame, the future of its
\* process_one_frame call and the graph of that call.
Job(frame) ==
    [st |-> "inline",
     extractors_results |-> [k \in Keys |-> IF k = "None" THEN frame ELSE Absent],
     item |-> [c \in feature_calculators |-> Absent],
     node |-> [n \in GraphNodes |-> IdleNode]]

\* No analysis is going on.
NoDecode ==
    [pc |-> "idle", idx |-> 0, frames |-> 0, local |-> Absent, pending |-> {},
     raising |-> {}]
NoTI == [prev_frame |-> None, calls |-> << >>]

NoAnalysis ==
    /\ decode = NoDecode
    /\ ti = NoTI
    /\ jobs = << >>
    /\ rows = << >>
    /\ runs = {}

\* extractors_results = {} inside the loop: a dict of its own for a frame.
ExtractorsResults(js, idx) == js[idx].extractors_results

\* for name in graph.get_ready(): matrix = extractors_results[
\* processor.depends_on()]; pool.submit(run_processor, processor, matrix)
GetReady(job, results) ==
    [job EXCEPT !.node =
        [n \in GraphNodes |->
            IF /\ job.node[n].st = "idle"
               /\ \A p \in Predecessors(n) : job.node[p].st = "done"
            THEN Node("submitted", results[depends_on(n)], Absent, Absent)
            ELSE job.node[n]]]

\* for future in done: graph.done(calc.name()); an extractor's result goes
\* to extractors_results, a calculator's to item.
Handled(job) ==
    LET done == {n \in GraphNodes : job.node[n].st = "finished"}
    IN  [job EXCEPT
            !.node = [n \in GraphNodes |->
                         IF n \in done THEN [job.node[n] EXCEPT !.st = "done"]
                         ELSE job.node[n]],
            !.extractors_results =
                [k \in Keys |-> IF k \in done /\ IsExtractor(k)
                                THEN job.node[k].result
                                ELSE job.extractors_results[k]],
            !.item = [c \in feature_calculators |->
                         IF c \in done THEN job.node[c].result
                         ELSE job.item[c]]]

\* run_processor: extract of an extractor, feed_frame of a calculator.
run_processor(name, matrix) ==
    IF IsExtractor(name) THEN extract(name, matrix) ELSE feed_frame(name, matrix)

\* The elements of a set of frame numbers, lowest first and highest first:
\* the orders in which a set of futures is iterated here.
RECURSIVE Ascending(_)
Ascending(S) ==
    IF S = {} THEN << >>
    ELSE LET m == CHOOSE m \in S : \A k \in S : m <= k
         IN  <<m>> \o Ascending(S \ {m})

RECURSIVE Descending(_)
Descending(S) ==
    IF S = {} THEN << >>
    ELSE LET m == CHOOSE m \in S : \A k \in S : m >= k
         IN  <<m>> \o Descending(S \ {m})

IterationOrders(S) == {Ascending(S), Descending(S)}

\* future.result() of each future, in the order given.
Results(order) == [k \in DOMAIN order |-> jobs[order[k]].item]

\* The futures process_one_frame has returned or raised for.
Done(S) == {i \in S : jobs[i].st \in {"finished", "raised"}}

\* The places of an order at which future.result() raises.
RaisedIn(order) == {k \in DOMAIN order : jobs[order[k]].st = "raised"}

\* for future in ...: rows.append(future.result()): the futures whose
\* result is appended, which are those before the first that raises.
Collected(order) ==
    IF RaisedIn(order) = {} THEN order
    ELSE SubSeq(order, 1,
                (CHOOSE k \in RaisedIn(order) :
                     \A l \in RaisedIn(order) : k <= l) - 1)

\* A plausible slip: wait() called without rebinding pending, so that the
\* futures collected stay in it.
StillPendingAll(pending, done) == pending

\* done, pending = wait(pending, return_when=FIRST_COMPLETED)
StillPending(pending, done) == pending \ done

\* for idx, frame in enumerate(decoder): the next frame, its dicts and the
\* inline YExtractor; or the end of the video, where the with block waits
\* for the pool.
DecodeNext ==
    /\ decode.pc = "next"
    /\ IF decode.idx < decode.frames
       THEN LET frame == frame_data(decode.idx)
                y == extract("Y", frame)
            IN  /\ jobs' = [i \in DOMAIN jobs \cup {decode.idx} |->
                               IF i = decode.idx
                               THEN [Job(frame) EXCEPT !.extractors_results["Y"] = y]
                               ELSE jobs[i]]
                /\ runs' = runs \cup {Run("Y", decode.idx, "decode", frame, y)}
                /\ decode' = [decode EXCEPT !.pc = "TI"]
       ELSE /\ decode' = [decode EXCEPT !.pc = "drain"]
            /\ UNCHANGED <<jobs, runs>>
    /\ UNCHANGED <<ti, rows, orchVars, selVars, apiVars, stampVars, storeVars, offVars>>

\* The inline TICalculator.extract(frame_data) reads self.prev_frame.
InlineTIRead ==
    /\ decode.pc = "TI"
    /\ decode' = [decode EXCEPT !.pc = "TI_write", !.local = ti.prev_frame]
    /\ ti' = [ti EXCEPT !.calls =
                 Append(@, [frame |-> decode.idx, thread |-> "decode"])]
    /\ UNCHANGED <<jobs, rows, runs, orchVars, selVars, apiVars, stampVars, storeVars, offVars>>

\* It writes self.prev_frame and returns; then pool.submit(
\* process_one_frame, ...), pending.add(future), if len(pending) > 10.
InlineTISubmit ==
    /\ decode.pc = "TI_write"
    /\ LET frame == frame_data(decode.idx)
           result == TIResult(frame, decode.local)
           pending == decode.pending \cup {decode.idx}
           full == Cardinality(pending) > PendingLimit
       IN  /\ ti' = [ti EXCEPT !.prev_frame = frame]
           /\ jobs' = [jobs EXCEPT ![decode.idx].extractors_results["TI"] = result,
                                   ![decode.idx].st = "submitted"]
           /\ runs' = runs \cup {Run("TI", decode.idx, "decode", frame, result)}
           /\ decode' = [decode EXCEPT
                            !.pc = IF full THEN "wait" ELSE "next",
                            !.idx = IF full THEN @ ELSE @ + 1,
                            !.local = Absent,
                            !.pending = pending]
    /\ UNCHANGED <<rows, orchVars, selVars, apiVars, stampVars, storeVars, offVars>>

\* done, pending = wait(pending, return_when=FIRST_COMPLETED);
\* for future in done: rows.append(future.result())
OuterWait ==
    /\ decode.pc = "wait"
    /\ LET done == Done(decode.pending)
       IN  /\ done # {}
           /\ \E order \in IterationOrders(done) :
                  /\ rows' = rows \o Results(Collected(order))
                  /\ decode' =
                         IF RaisedIn(order) = {}
                         THEN [decode EXCEPT
                                  !.pc = "next", !.idx = @ + 1,
                                  !.pending = StillPending(@, done)]
                         ELSE [decode EXCEPT
                                  !.pc = "raised",
                                  !.pending = StillPending(@, done)]
    /\ UNCHANGED <<ti, jobs, runs, orchVars, selVars, apiVars, stampVars, storeVars, offVars>>

\* After the pool has shut down: for future in pending:
\* rows.append(future.result()); return rows
Drain ==
    /\ decode.pc = "drain"
    /\ Done(DOMAIN jobs) = DOMAIN jobs
    /\ \E order \in IterationOrders(decode.pending) :
           /\ rows' = rows \o Results(Collected(order))
           /\ decode' = [decode EXCEPT
                            !.pc = IF RaisedIn(order) = {} THEN "returned"
                                   ELSE "raised"]
    /\ UNCHANGED <<ti, jobs, runs, orchVars, selVars, apiVars, stampVars, storeVars, offVars>>

\* The process_one_frame calls that threads of the outer pool are running.
RunningJobs == {i \in DOMAIN jobs : jobs[i].st = "running"}

\* The processors that threads of the inner pool of frame idx are running.
Executing(idx) ==
    {n \in GraphNodes : jobs[idx].node[n].st \in {"executing", "reading"}}

\* ThreadPoolExecutor(): a work item starts when one of the max_workers
\* threads of its pool is free.
ThreadFree(busy) == Cardinality(busy) < MaxWorkers

\* A thread of the outer pool takes process_one_frame of frame idx from
\* the pool's work queue, which is first in, first out: graph.prepare() and
\* the first get_ready().
JobStart(idx) ==
    /\ jobs[idx].st = "submitted"
    /\ \A i \in DOMAIN jobs : i < idx => jobs[i].st # "submitted"
    /\ ThreadFree(RunningJobs)
    /\ jobs' = [jobs EXCEPT ![idx] =
                   [GetReady(@, ExtractorsResults(jobs, idx)) EXCEPT !.st = "running"]]
    /\ UNCHANGED <<decode, ti, rows, runs, orchVars, selVars, apiVars, stampVars, storeVars, offVars>>

\* A thread of the inner pool takes run_processor of a stateless processor.
StartProcessor(idx, name) ==
    /\ name # "TI"
    /\ jobs[idx].node[name].st = "submitted"
    /\ ThreadFree(Executing(idx))
    /\ jobs' = [jobs EXCEPT ![idx].node[name].st = "executing"]
    /\ UNCHANGED <<decode, ti, rows, runs, orchVars, selVars, apiVars, stampVars, storeVars, offVars>>

\* run_processor of a stateless processor returns.
RunProcessor(idx, name) ==
    /\ name # "TI"
    /\ jobs[idx].node[name].st = "executing"
    /\ LET matrix == jobs[idx].node[name].matrix
           result == run_processor(name, matrix)
       IN  /\ jobs' = [jobs EXCEPT ![idx].node[name] =
                          Node("finished", matrix, Absent, result)]
           /\ runs' = runs \cup {Run(name, idx, "pool", matrix, result)}
    /\ UNCHANGED <<decode, ti, rows, orchVars, selVars, apiVars, stampVars, storeVars, offVars>>

\* A thread of the inner pool runs run_processor for the TICalculator:
\* extract reads self.prev_frame ...
PoolTIRead(idx) ==
    /\ jobs[idx].node["TI"].st = "submitted"
    /\ ThreadFree(Executing(idx))
    /\ jobs' = [jobs EXCEPT ![idx].node["TI"] =
                   Node("reading", @.matrix, ti.prev_frame, Absent)]
    /\ ti' = [ti EXCEPT !.calls = Append(@, [frame |-> idx, thread |-> "pool"])]
    /\ UNCHANGED <<decode, rows, runs, orchVars, selVars, apiVars, stampVars, storeVars, offVars>>

\* ... and writes it.
PoolTIWrite(idx) ==
    /\ jobs[idx].node["TI"].st = "reading"
    /\ LET matrix == jobs[idx].node["TI"].matrix
           result == TIResult(matrix, jobs[idx].node["TI"].local)
       IN  /\ ti' = [ti EXCEPT !.prev_frame = matrix]
           /\ jobs' = [jobs EXCEPT ![idx].node["TI"] =
                          Node("finished", matrix, Absent, result)]
           /\ runs' = runs \cup {Run("TI", idx, "pool", matrix, result)}
    /\ UNCHANGED <<decode, rows, orchVars, selVars, apiVars, stampVars, storeVars, offVars>>

\* wait(pending, return_when=FIRST_COMPLETED) of process_one_frame returns
\* the futures that are done; their results are stored, the processors that
\* became ready are submitted, and with no node left the item is returned.
JobWait(idx) ==
    /\ jobs[idx].st = "running"
    /\ \E n \in GraphNodes : jobs[idx].node[n].st = "finished"
    /\ LET handled == Handled(jobs[idx])
           js == [jobs EXCEPT ![idx] = handled]
           next == GetReady(handled, ExtractorsResults(js, idx))
       IN  jobs' = [jobs EXCEPT ![idx] =
                       IF \A n \in GraphNodes : next.node[n].st = "done"
                       THEN [next EXCEPT !.st = "finished"]
                       ELSE next]
    /\ UNCHANGED <<decode, ti, rows, runs, orchVars, selVars, apiVars, stampVars, storeVars, offVars>>

\* process_one_frame of frame idx from its first get_ready() to its
\* return: of the processors it runs only the chain Y, SI, SI_mean is
\* followed.
ProcessOneFrame(idx) ==
    /\ jobs[idx].st = "running"
    /\ LET si == run_processor("SI", jobs[idx].extractors_results["Y"])
       IN  jobs' = IF idx \in decode.raising
                   THEN [jobs EXCEPT ![idx].st = "raised"]
                   ELSE [jobs EXCEPT
                            ![idx].st = "finished",
                            ![idx].item["SI_mean"] = run_processor("SI_mean", si)]
    /\ UNCHANGED <<decode, ti, rows, runs, orchVars, selVars, apiVars, stampVars, storeVars, offVars>>

(* ------------------- feature_calculator/calculate.py ------------------ *)

\* frames of the video analysed in SpecOffline
MaxOfflineFrames == 2
\* threads of the pool of the offline analyze_file: 1..MaxPool
MaxPool == 3

\* A plausible slip: processors = feature_calculators + extractors.
OfflineProcessorsCalculatorsFirst == <<"SI_mean", "TI_mean", "Y", "SI", "TI">>

\* processors = extractors + feature_calculators, in the order of the list:
\* YExtractor, SIExtractor, TICalculator, then MeanCalculator('SI') and
\* MeanCalculator('TI'); the other processors of the list hang on these or
\* on GLCM in the same way.
OfflineProcessors == <<"Y", "SI", "TI", "SI_mean", "TI_mean">>

OfflineNames == {OfflineProcessors[k] : k \in DOMAIN OfflineProcessors}

\* The place of a processor in the list.
Place(name) == CHOOSE k \in DOMAIN OfflineProcessors : OfflineProcessors[k] = name

\* The offline analyze_file: the decode loop (pc, frame of frames), the
\* pool (workers threads, the work item of each processor), the keys of
\* extractors_results whose Future has its result, and the frames the
\* TICalculator was given.
NoOffline ==
    [pc |-> "idle", frame |-> 0, frames |-> 0, workers |-> 0,
     task |-> [name \in OfflineNames |-> "none"], set |-> {}, seen |-> << >>]

\* extractors_results = defaultdict(Future);
\* extractors_results[None].set_result(frame_data);
\* for processor in processors: futures.append(pool.submit(run_processor,
\* processor, extractors_results[processor.depends_on()])); or the end of
\* the video.
OfflineSubmit ==
    /\ offline.pc = "submit"
    /\ IF offline.frame < offline.frames
       THEN offline' = [offline EXCEPT
                           !.pc = "collect",
                           !.task = [name \in OfflineNames |-> "queued"],
                           !.set = {"None"}]
       ELSE offline' = [offline EXCEPT !.pc = "returned"]
    /\ UNCHANGED <<orchVars, selVars, apiVars, anaVars, stampVars, storeVars>>

\* The work items a thread of the pool is running.
OfflineRunning == {name \in OfflineNames : offline.task[name] = "running"}

\* A free thread of the pool takes the first work item of the queue.
OfflineStart(name) ==
    /\ offline.task[name] = "queued"
    /\ \A other \in OfflineNames :
           Place(other) < Place(name) => offline.task[other] # "queued"
    /\ Cardinality(OfflineRunning) < offline.workers
    /\ offline' = [offline EXCEPT !.task[name] = "running"]
    /\ UNCHANGED <<orchVars, selVars, apiVars, anaVars, stampVars, storeVars>>

\* run_processor: future.result() blocks until the Future of the
\* dependency has its result; then extract or feed_frame runs, and the
\* work item is done. The TICalculator notes the frame it was given.
OfflineRun(name) ==
    /\ offline.task[name] = "running"
    /\ depends_on(name) \in offline.set
    /\ offline' = [offline EXCEPT
                      !.task[name] = "finished",
                      !.seen = IF name = "TI" THEN Append(@, offline.frame)
                               ELSE @]
    /\ UNCHANGED <<orchVars, selVars, apiVars, anaVars, stampVars, storeVars>>

\* for future in as_completed(futures): an extractor's result is set on its
\* Future of extractors_results, a calculator's goes to item; after the
\* last, writer.writerow(item) and the next frame.
OfflineCollect(name) ==
    /\ offline.pc = "collect"
    /\ offline.task[name] = "finished"
    /\ LET last == \A other \in OfflineNames \ {name} :
                       offline.task[other] = "collected"
       IN  offline' = [offline EXCEPT
                          !.task[name] = "collected",
                          !.set = IF IsExtractor(name) THEN @ \cup {name}
                                  ELSE @,
                          !.pc = IF last THEN "submit" ELSE @,
                          !.frame = IF last THEN @ + 1 ELSE @]
    /\ UNCHANGED <<orchVars, selVars, apiVars, anaVars, stampVars, storeVars>>

(* --------------------------- specifications --------------------------- *)

NoTable == << >>
NoSelection == [parameter |-> "none", value |-> 0]
NoResponse == [code |-> 0]

\* POST /tasks has committed the row and enqueued the chain.
Init ==
    /\ row = Task
    /\ ex = << >>
    /\ chain = {}
    /\ uploads = {}
    /\ encoderCalls = {}
    /\ table = NoTable
    /\ tempFiles = {}
    /\ tasks = << >>
    /\ objects = {}
    /\ queue = << >>
    /\ posts = << >>
    /\ response = NoResponse
    /\ presigned = {}
    /\ NoAnalysis
    /\ utcnow = 0
    /\ updated_at = 0
    /\ objectSizes = << >>
    /\ offline = NoOffline
    /\ selected = NoSelection

Next ==
    \/ DeliverAnalyze
    \/ DeliverTranscode
    \/ \E d \in Execs : Crash(d)
    \/ \E d \in Execs : AnalyzeClaim(d)
    \/ \E d \in Execs : AnalyzeClaimCommit(d)
    \/ \E d \in Execs : AnalyzePresign(d)
    \/ \E d \in Execs : AnalyzeFile(d)
    \/ \E d \in Execs : AnalyzeAggregate(d)
    \/ \E d \in Execs : AnalyzePredict(d)
    \/ \E d \in Execs : TranscodeClaim(d)
    \/ \E d \in Execs : TranscodeClaimCommit(d)
    \/ \E d \in Execs : TranscodePresign(d)
    \/ \E d \in Execs : TranscodeEncode(d)
    \/ \E d \in Execs : TranscodeUpload(d)
    \/ \E d \in Execs : TranscodeMerge(d)
    \/ \E d \in Execs : TranscodeCommit(d)

Spec == Init /\ [][Next]_vars

\* Time passes on the database server.
Tick ==
    /\ utcnow < MaxClock
    /\ utcnow' = utcnow + 1
    /\ UNCHANGED <<orchVars, selVars, apiVars, anaVars, updated_at, storeVars, offVars>>

NextStamp ==
    \/ Next
    \/ Tick

\* The handlers of one task while the database clock advances.
SpecStamp == Init /\ [][NextStamp]_vars

\* The broker delivers the chained transcode_video message of an Analyze
\* result, once.
DeliverChained ==
    /\ \E params \in chain :
           /\ \A d \in Execs : ex[d].kind = "transcode" => ex[d].output # params
           /\ ex' = Append(ex, Execution("transcode", params))
    /\ UNCHANGED <<row, chain, uploads, encoderCalls, tempFiles, selVars, apiVars, anaVars, stampVars, storeVars, offVars>>

\* The worker dies inside the body of handler d, the task being PROCESSING,
\* while the broker has deliveries left for the message and for what is
\* chained to it.
CrashInBody(d) ==
    /\ InBody(d)
    /\ Len(ex) + (IF ex[d].kind = "analyze" THEN 2 ELSE 1) <= MaxExec
    /\ Crash(d)

\* The broker delivers again the message of an execution whose worker died.
Redeliver(d) ==
    /\ ex[d].pc = "crashed"
    /\ ex' = Append([ex EXCEPT ![d].pc = "redelivered"],
                    Execution(ex[d].kind, ex[d].output))
    /\ UNCHANGED <<row, chain, uploads, encoderCalls, tempFiles, selVars, apiVars, anaVars, stampVars, storeVars, offVars>>

\* A step of a handler.
HandlerStep ==
    \/ \E d \in Execs : AnalyzeClaim(d)
    \/ \E d \in Execs : AnalyzeClaimCommit(d)
    \/ \E d \in Execs : AnalyzePresign(d)
    \/ \E d \in Execs : AnalyzeFile(d)
    \/ \E d \in Execs : AnalyzeAggregate(d)
    \/ \E d \in Execs : AnalyzePredict(d)
    \/ \E d \in Execs : TranscodeClaim(d)
    \/ \E d \in Execs : TranscodeClaimCommit(d)
    \/ \E d \in Execs : TranscodePresign(d)
    \/ \E d \in Execs : TranscodeEncode(d)
    \/ \E d \in Execs : TranscodeUpload(d)
    \/ \E d \in Execs : TranscodeMerge(d)
    \/ \E d \in Execs : TranscodeCommit(d)

\* Each message delivered once, and again only after the worker that ran it
\* died in the handler's body; a handler that has started takes its next step,
\* and the broker delivers what it holds.
NextRecover ==
    \/ ex = << >> /\ DeliverAnalyze
    \/ DeliverChained
    \/ \E d \in Execs : CrashInBody(d)
    \/ \E d \in Execs : Redeliver(d)
    \/ HandlerStep

FairRecover ==
    /\ WF_vars(ex = << >> /\ DeliverAnalyze)
    /\ WF_vars(DeliverChained)
    /\ WF_vars(\E d \in Execs : Redeliver(d))
    /\ WF_vars(HandlerStep)

SpecRecover == Init /\ [][NextRecover]_vars /\ FairRecover

\* The same handlers on workers that may be shut down while they run one.
NextShutdown ==
    \/ Next
    \/ \E d \in Execs : Shutdown(d)

SpecShutdown == Init /\ [][NextShutdown]_vars

\* select_best_row on any candidate table of at most MaxRows rows.
TableRows ==
    [parameter : {"crf", "qp"}, value : {FallbackCrf, CrfFirst, QpLast},
     quality : Qualities]

Tables == UNION {[1..n -> TableRows] : n \in 0..MaxRows}

InitSelect ==
    /\ row = Task
    /\ ex = << >>
    /\ chain = {}
    /\ uploads = {}
    /\ encoderCalls = {}
    /\ table \in Tables
    /\ tempFiles = {}
    /\ tasks = << >>
    /\ objects = {}
    /\ queue = << >>
    /\ posts = << >>
    /\ response = NoResponse
    /\ presigned = {}
    /\ NoAnalysis
    /\ utcnow = 0
    /\ updated_at = 0
    /\ objectSizes = << >>
    /\ offline = NoOffline
    /\ selected = NoSelection

SelectBestRow ==
    /\ selected = NoSelection
    /\ selected' = select_best_row(table)
    /\ UNCHANGED <<table, orchVars, apiVars, anaVars, stampVars, storeVars, offVars>>

NextSelect == SelectBestRow

SpecSelect == InitSelect /\ [][NextSelect]_vars

\* The same handlers under a broker that delivers the feature_calculator
\* message once and the transcode_video message up to MaxOverlap times, with
\* no worker crash: the behaviours of overlapping Transcode executions.
NextOverlap ==
    \/ ex = << >> /\ DeliverAnalyze
    \/ DeliverTranscodeUpTo(1 + MaxOverlap)
    \/ \E d \in Execs : AnalyzeClaim(d)
    \/ \E d \in Execs : AnalyzeClaimCommit(d)
    \/ \E d \in Execs : AnalyzePresign(d)
    \/ \E d \in Execs : AnalyzeFile(d)
    \/ \E d \in Execs : AnalyzeAggregate(d)
    \/ \E d \in Execs : AnalyzePredict(d)
    \/ \E d \in Execs : TranscodeClaim(d)
    \/ \E d \in Execs : TranscodeClaimCommit(d)
    \/ \E d \in Execs : TranscodePresign(d)
    \/ \E d \in Execs : TranscodeEncode(d)
    \/ \E d \in Execs : TranscodeUpload(d)
    \/ \E d \in Execs : TranscodeMerge(d)
    \/ \E d \in Execs : TranscodeCommit(d)

SpecOverlap == Init /\ [][NextOverlap]_vars

\* analyze_file on a video of n frames, a processor raising on the frames
\* of raising.
InitVideo(n, raising) ==
    /\ row = Task
    /\ ex = << >>
    /\ chain = {}
    /\ uploads = {}
    /\ encoderCalls = {}
    /\ tempFiles = {}
    /\ table = NoTable
    /\ selected = NoSelection
    /\ tasks = << >>
    /\ objects = {}
    /\ queue = << >>
    /\ posts = << >>
    /\ response = NoResponse
    /\ presigned = {}
    /\ decode = [NoDecode EXCEPT !.pc = "next", !.frames = n,
                                 !.raising = raising]
    /\ ti = NoTI
    /\ jobs = << >>
    /\ rows = << >>
    /\ runs = {}
    /\ utcnow = 0
    /\ updated_at = 0
    /\ objectSizes = << >>
    /\ offline = NoOffline

\* analyze_file on a video of n frames on which no processor raises.
InitFrames(n) == InitVideo(n, {})

InitAnalyze == InitFrames(MaxFrames)

\* A video of MaxFrames frames, fewer than fill pending: wait() of
\* analyze_file is never called, and the rows are collected after the loop.
NextAnalyze ==
    \/ DecodeNext
    \/ InlineTIRead
    \/ InlineTISubmit
    \/ Drain
    \/ \E idx \in DOMAIN jobs : JobStart(idx)
    \/ \E idx \in DOMAIN jobs : \E name \in GraphNodes : StartProcessor(idx, name)
    \/ \E idx \in DOMAIN jobs : \E name \in GraphNodes : RunProcessor(idx, name)
    \/ \E idx \in DOMAIN jobs : PoolTIRead(idx)
    \/ \E idx \in DOMAIN jobs : PoolTIWrite(idx)
    \/ \E idx \in DOMAIN jobs : JobWait(idx)

SpecAnalyze == InitAnalyze /\ [][NextAnalyze]_vars

\* analyze_file on a video long enough to fill pending, each
\* process_one_frame call taken as one step.
\* The videos of n frames analysed in SpecFlow: no processor raises, or
\* one raises on the first frame, or one raises on the last.
RaisingFrames(n) == {{}} \cup (IF n > 0 THEN {{0}, {n - 1}} ELSE {})

InitFlow ==
    \E n \in 0..MaxFlowFrames :
        \E raising \in RaisingFrames(n) : InitVideo(n, raising)

NextFlow ==
    \/ DecodeNext
    \/ InlineTIRead
    \/ InlineTISubmit
    \/ OuterWait
    \/ Drain
    \/ \E idx \in DOMAIN jobs : JobStart(idx)
    \/ \E idx \in DOMAIN jobs : ProcessOneFrame(idx)

SpecFlow == InitFlow /\ [][NextFlow]_vars

\* The offline analyze_file on a video of up to MaxOfflineFrames frames,
\* with a pool of 1 to MaxPool threads.
InitOffline ==
    /\ row = Task
    /\ ex = << >>
    /\ chain = {}
    /\ uploads = {}
    /\ encoderCalls = {}
    /\ tempFiles = {}
    /\ table = NoTable
    /\ selected = NoSelection
    /\ tasks = << >>
    /\ objects = {}
    /\ queue = << >>
    /\ posts = << >>
    /\ response = NoResponse
    /\ presigned = {}
    /\ NoAnalysis
    /\ utcnow = 0
    /\ updated_at = 0
    /\ objectSizes = << >>
    /\ \E frames \in 0..MaxOfflineFrames, workers \in 1..MaxPool :
           offline = [NoOffline EXCEPT !.pc = "submit", !.frames = frames,
                                       !.workers = workers]

NextOffline ==
    \/ OfflineSubmit
    \/ \E name \in OfflineNames : OfflineStart(name)
    \/ \E name \in OfflineNames : OfflineRun(name)
    \/ \E name \in OfflineNames : OfflineCollect(name)

SpecOffline == InitOffline /\ [][NextOffline]_vars

(* ------------------------------ HTTP API ------------------------------ *)

\* What magic.from_buffer(file.file.read(1024), mime=True) may detect.
ContentTypes == {"video/mp4", "application/octet-stream"}

\* Names a client may give the uploaded file.
Filenames == {"video.mp4", "clip"}

\* A plausible slip: a file of unknown type passes for a video.
is_video_or_unknown(content_type) ==
    \/ Len(content_type) >= 6 /\ SubSeq(content_type, 1, 6) = "video/"
    \/ content_type = "application/octet-stream"

\* content_type.startswith('video/')
is_video(content_type) ==
    Len(content_type) >= 6 /\ SubSeq(content_type, 1, 6) = "video/"

\* os.path.splitext(original_filename)[-1]: from the last dot on, a leading
\* dot not counting.
extension(original_filename) ==
    LET dots == {k \in 2..Len(original_filename) :
                    SubSeq(original_filename, k, k) = "."}
    IN  IF dots = {} THEN ""
        ELSE SubSeq(original_filename,
                    CHOOSE k \in dots : \A l \in dots : l <= k,
                    Len(original_filename))

\* s3_key = f'source/{generate_unique_filename(file.filename)}': the uuid4 of
\* the i-th POST is i.
s3_key(i, original_filename) ==
    "source/" \o ToString(i) \o extension(original_filename)

\* A plausible slip: the row is created already PROCESSING.
NewTaskProcessing(id, source_file, created_at) ==
    [id |-> id, status |-> "PROCESSING", source_file |-> source_file,
     output_file |-> Null, output_size |-> Null, error_message |-> NullText,
     created_at |-> created_at]

\* Task(source_file=s3_key, source_size=file.size, status=PENDING) as the
\* INSERT stores it: id from the identity column, created_at from the server.
NewTask(id, source_file, created_at) ==
    [id |-> id, status |-> "PENDING", source_file |-> source_file,
     output_file |-> Null, output_size |-> Null, error_message |-> NullText,
     created_at |-> created_at]

\* schemas.TaskResponse.model_validate(task)
TaskResponse(task) ==
    [id |-> task.id, status |-> task.status, source_file |-> task.source_file,
     output_file |-> task.output_file, error_message |-> task.error_message,
     created_at |-> task.created_at]

\* feature_calculator_task.s(db_task.id, db_task.source_file) |
\* transcode_video_task.s(db_task.id)
Chain(db_task) == [task_id |-> db_task.id, source_file |-> db_task.source_file]

\* One execution of create_encoding_task, at the step pc.
Post(content_type, original_filename, pc) ==
    [pc |-> pc, content_type |-> content_type,
     filename |-> original_filename, failed |-> "none"]

\* A plausible slip: the upload error is not translated.
UploadFailedUntranslated(i) == [code |-> 500, post |-> i]

\* except S3Exception as e: raise HTTPException(status_code=BAD_GATEWAY, ...)
UploadFailed(i) == [code |-> 502, post |-> i]

\* statement.filter(Task.status.in_(statuses))
RECURSIVE filter_status_in(_, _)
filter_status_in(query, statuses) ==
    IF query = << >> THEN << >>
    ELSE IF query[1].status \in statuses
         THEN <<query[1]>> \o filter_status_in(Tail(query), statuses)
         ELSE filter_status_in(Tail(query), statuses)

\* A plausible slip: the oldest task first.
RECURSIVE order_by_created_at(_)
order_by_created_at(query) ==
    IF query = << >> THEN << >>
    ELSE LET k == CHOOSE k \in DOMAIN query :
                      \A l \in DOMAIN query :
                          query[k].created_at <= query[l].created_at
         IN  <<query[k]>> \o
             order_by_created_at(
                 SubSeq(query, 1, k - 1) \o SubSeq(query, k + 1, Len(query)))

\* order_by(desc(Task.created_at))
RECURSIVE order_by_desc_created_at(_)
order_by_desc_created_at(query) ==
    IF query = << >> THEN << >>
    ELSE LET k == CHOOSE k \in DOMAIN query :
                      \A l \in DOMAIN query :
                          query[k].created_at >= query[l].created_at
         IN  <<query[k]>> \o
             order_by_desc_created_at(
                 SubSeq(query, 1, k - 1) \o SubSeq(query, k + 1, Len(query)))

\* list_tasks: select(Task), filtered by status when statuses is given and
\* not empty, order_by(desc(created_at)).offset(skip).limit(limit).
list_tasks(all, statuses, limit, skip) ==
    LET statement ==
            IF statuses # {} THEN filter_status_in(all, statuses) ELSE all
        ordered == order_by_desc_created_at(statement)
        result == SubSeq(ordered, skip + 1,
                         IF skip + limit < Len(ordered)
                         THEN skip + limit ELSE Len(ordered))
    IN  [k \in DOMAIN result |-> TaskResponse(result[k])]

\* S3Client.generate_presigned_url(object_name): a URL of the object, valid
\* for PRESIGNED_URL_EXPIRATION seconds; the key of output d is encoded/<d>.mp4.
S3_BUCKET == "bucket"
PRESIGNED_URL_EXPIRATION == 3600

\* A plausible slip: the expiry of the workers' URLs, 3600 * 24.
PresignRequestDay(object_name) ==
    [ClientMethod |-> "get_object", Bucket |-> S3_BUCKET, Key |-> object_name,
     ExpiresIn |-> PRESIGNED_URL_EXPIRATION * 24]

\* S3Client.generate_presigned_url: what it asks the object store.
PresignRequest(object_name) ==
    [ClientMethod |-> "get_object", Bucket |-> S3_BUCKET, Key |-> object_name,
     ExpiresIn |-> PRESIGNED_URL_EXPIRATION]

\* The URL the object store signs for a request; the key k stands for
\* encoded/<k>.mp4.
SignedUrl(request) ==
    "https://s3/" \o request.Bucket \o "/encoded/" \o ToString(request.Key)
    \o ".mp4?X-Amz-Expires=" \o ToString(request.ExpiresIn)

generate_presigned_url(object_name) == SignedUrl(PresignRequest(object_name))

\* get_task: the URLs it asks the object store for.
Presigned(task) ==
    IF task.status = "COMPLETED" /\ task.output_file # Null
    THEN {PresignRequest(task.output_file)}
    ELSE {}

\* A plausible slip: the check "if not task" left out, so that
\* model_validate(None) raises and the request ends with 500.
TaskNotFoundUnchecked(task_id) == [code |-> 500, task_id |-> task_id]

\* raise HTTPException(status_code=HTTPStatus.NOT_FOUND, ...)
TaskNotFound(task_id) == [code |-> 404, task_id |-> task_id]

\* get_task: if task.status == TaskStatus.COMPLETED and task.output_file:
\*     response.download_url = await s3_client.generate_presigned_url(...)
DownloadUrl(task) ==
    IF task.status = "COMPLETED" /\ task.output_file # Null
    THEN generate_presigned_url(task.output_file)
    ELSE NullText

\* get_task: TaskDetailResponse.model_validate(task) and the download URL.
TaskDetailResponse(task) ==
    [id |-> task.id, status |-> task.status, source_file |-> task.source_file,
     output_file |-> task.output_file, output_size |-> task.output_size,
     error_message |-> task.error_message, created_at |-> task.created_at,
     download_url |-> DownloadUrl(task)]

\* create_encoding_task up to the upload: the content type is detected, and
\* a file that is not a video is refused.
PostCheck ==
    /\ Len(posts) < MaxPosts
    /\ \E content_type \in ContentTypes, original_filename \in Filenames :
          IF is_video(content_type)
          THEN /\ posts' = Append(posts,
                              Post(content_type, original_filename, "upload"))
               /\ response' = NoResponse
          ELSE /\ posts' = Append(posts,
                              [Post(content_type, original_filename, "done")
                                  EXCEPT !.failed = "type"])
               /\ response' = [code |-> 400, post |-> Len(posts) + 1]
    /\ presigned' = {}
    /\ UNCHANGED <<tasks, objects, queue, orchVars, selVars, anaVars, stampVars, storeVars, offVars>>

\* await s3_client.upload_file(file.file, s3_key, content_type)
PostUpload(i) ==
    /\ posts[i].pc = "upload"
    /\ \/ /\ objects' = objects \cup {s3_key(i, posts[i].filename)}
          /\ posts' = [posts EXCEPT ![i].pc = "commit"]
          /\ response' = NoResponse
       \/ /\ posts' = [posts EXCEPT ![i].pc = "done", ![i].failed = "upload"]
          /\ response' = UploadFailed(i)
          /\ UNCHANGED objects
    /\ presigned' = {}
    /\ UNCHANGED <<tasks, queue, orchVars, selVars, anaVars, stampVars, storeVars, offVars>>

\* db.add(db_task); await db.commit(); await db.refresh(db_task). The
\* server stamps created_at; two rows never get the same instant.
PostCommit(i) ==
    /\ posts[i].pc = "commit"
    /\ \/ /\ \E created_at \in 1..MaxPosts :
                /\ \A k \in DOMAIN tasks : tasks[k].created_at # created_at
                /\ tasks' = Append(tasks,
                                NewTask(Len(tasks),
                                        s3_key(i, posts[i].filename),
                                        created_at))
          /\ posts' = [posts EXCEPT ![i].pc = "enqueue"]
          /\ response' = NoResponse
       \/ /\ posts' = [posts EXCEPT ![i].pc = "done", ![i].failed = "commit"]
          /\ response' = [code |-> 500, post |-> i]
          /\ UNCHANGED tasks
    /\ presigned' = {}
    /\ UNCHANGED <<objects, queue, orchVars, selVars, anaVars, stampVars, storeVars, offVars>>

\* await run_in_executor(None, chain); return TaskResponse.model_validate(
\* db_task): db_task is the row as refreshed after the commit.
PostEnqueue(i) ==
    /\ posts[i].pc = "enqueue"
    /\ LET db_task == CHOOSE t \in {tasks[k] : k \in DOMAIN tasks} :
                          t.source_file = s3_key(i, posts[i].filename)
       IN  \/ /\ queue' = Append(queue, Chain(db_task))
              /\ posts' = [posts EXCEPT ![i].pc = "done"]
              /\ response' = [code |-> 201, post |-> i,
                              task |-> TaskResponse(db_task)]
           \/ /\ posts' = [posts EXCEPT ![i].pc = "done",
                                        ![i].failed = "enqueue"]
              /\ response' = [code |-> 500, post |-> i]
              /\ UNCHANGED queue
    /\ presigned' = {}
    /\ UNCHANGED <<tasks, objects, orchVars, selVars, anaVars, stampVars, storeVars, offVars>>

\* A worker takes the n-th chain and a handler claims its task: the finished
\* check, then status = PROCESSING and the commit, with no other execution
\* of the task in between.
WorkerClaim(n) ==
    /\ ~IsFinished(tasks[queue[n].task_id + 1].status)
    /\ tasks[queue[n].task_id + 1].status = "PENDING"
    /\ tasks' = [tasks EXCEPT ![queue[n].task_id + 1] = ClaimCommit(@, @)]
    /\ response' = NoResponse
    /\ presigned' = {}
    /\ UNCHANGED <<objects, queue, posts, orchVars, selVars, anaVars, stampVars, storeVars, offVars>>

\* The Transcode handler of the n-th chain ends: COMPLETED with its output
\* (the key of task id is encoded/<id + 1>.mp4), or FAILED with a message.
WorkerFinish(n) ==
    /\ tasks[queue[n].task_id + 1].status = "PROCESSING"
    /\ \/ tasks' = [tasks EXCEPT ![queue[n].task_id + 1] =
                       CompletedTask(@, queue[n].task_id + 1, MaxSize)]
       \/ tasks' = [tasks EXCEPT ![queue[n].task_id + 1] =
                       FailedTask(@, "upload error")]
    /\ response' = NoResponse
    /\ presigned' = {}
    /\ UNCHANGED <<objects, queue, posts, orchVars, selVars, anaVars, stampVars, storeVars, offVars>>

\* GET /tasks?statuses=..&limit=..&skip=..
ListTasks ==
    /\ \E statuses \in SUBSET TaskStatus, limit \in 0..MaxPage,
          skip \in 0..MaxPage :
           response' = [code |-> 200, statuses |-> statuses, limit |-> limit,
                        skip |-> skip,
                        tasks |-> list_tasks(tasks, statuses, limit, skip)]
    /\ presigned' = {}
    /\ UNCHANGED <<tasks, objects, queue, posts, orchVars, selVars, anaVars, stampVars, storeVars, offVars>>

\* GET /tasks/{task_id}
GetTask ==
    /\ \E task_id \in 0..MaxPosts :
           IF task_id + 1 \in DOMAIN tasks
           THEN /\ response' = [code |-> 200, task_id |-> task_id,
                                task |-> TaskDetailResponse(tasks[task_id + 1])]
                /\ presigned' = Presigned(tasks[task_id + 1])
           ELSE /\ response' = TaskNotFound(task_id)
                /\ presigned' = {}
    /\ UNCHANGED <<tasks, objects, queue, posts, orchVars, selVars, anaVars, stampVars, storeVars, offVars>>

\* The HTTP API with its clients, and workers running the chains.
NextApi ==
    \/ PostCheck
    \/ \E i \in DOMAIN posts : PostUpload(i)
    \/ \E i \in DOMAIN posts : PostCommit(i)
    \/ \E i \in DOMAIN posts : PostEnqueue(i)
    \/ \E n \in DOMAIN queue : WorkerClaim(n)
    \/ \E n \in DOMAIN queue : WorkerFinish(n)
    \/ GetTask

SpecApi == Init /\ [][NextApi]_vars

\* A row of the tasks table in each status, as the handlers leave it.
TaskRow(id, status, created_at) ==
    LET task == NewTask(id, "source/" \o ToString(id) \o ".mp4", created_at)
    IN  CASE status = "PENDING" -> task
          [] status = "PROCESSING" -> ClaimCommit(task, task)
          [] status = "COMPLETED" -> CompletedTask(task, id + 1, MaxSize)
          [] status = "FAILED" -> FailedTask(task, "upload error")

\* Tables of at most MaxTasks rows, with ids in the order of insertion and
\* distinct instants of creation in any order.
TaskTables ==
    UNION {{[k \in 1..n |-> TaskRow(k - 1, status[k], created_at[k])] :
               status \in [1..n -> TaskStatus],
               created_at \in {c \in [1..n -> 1..n] :
                                  \A k, l \in 1..n : c[k] = c[l] => k = l}} :
           n \in 0..MaxTasks}

InitList ==
    /\ row = Task
    /\ ex = << >>
    /\ chain = {}
    /\ uploads = {}
    /\ encoderCalls = {}
    /\ tempFiles = {}
    /\ table = NoTable
    /\ selected = NoSelection
    /\ tasks \in TaskTables
    /\ objects = {}
    /\ queue = << >>
    /\ posts = << >>
    /\ response = NoResponse
    /\ presigned = {}
    /\ NoAnalysis
    /\ utcnow = 0
    /\ updated_at = 0
    /\ objectSizes = << >>
    /\ offline = NoOffline

\* One GET /tasks request on the table.
NextList == response = NoResponse /\ ListTasks

\* GET /tasks on any table of at most MaxTasks rows.
SpecList == InitList /\ [][NextList]_vars

(* ------------------------------ properties ---------------------------- *)

Terminal == {"COMPLETED", "FAILED"}

\* Execution d ends in this step otherwise than by a crash of the worker.
Ends(d) ==
    /\ d \in Execs
    /\ ex[d].pc \notin Ended
    /\ ex'[d].pc \in {"returned", "raised"}

\* The rate control of an encoder invocation: what its argument list holds
\* between -c:v libx265 -preset veryslow and the global options.
RateControl(call) == SubSeq(call.args, 18, Len(call.args) - 8)

\* C1: the status stored in the row only moves along PENDING, PROCESSING,
\* then COMPLETED or FAILED, and never leaves COMPLETED or FAILED.
C1_StatusMonotone ==
    [][\/ row'.status = row.status
       \/ row.status = "PENDING" /\ row'.status = "PROCESSING"
       \/ row.status = "PROCESSING" /\ row'.status \in Terminal]_vars

\* C2: at most one upload to an encoded/* key succeeds for the task.
C2_AtMostOneUpload == Cardinality(uploads) <= 1

\* C3: a handler that starts on a task that is COMPLETED or FAILED returns
\* in that step and changes neither the row nor the uploads nor the encoder
\* invocations, and an execution that found the task finished has never run
\* the encoder or uploaded.
C3_FinishedTaskUntouched ==
    /\ [][\A d \in Execs :
            (/\ ex[d].pc = "claim"
             /\ ex'[d].pc \notin {"claim", "crashed"}
             /\ row.status \in Terminal)
            => (/\ ex'[d].pc = "returned"
                /\ row' = row
                /\ uploads' = uploads
                /\ encoderCalls' = encoderCalls)]_vars
    /\ [](\A d \in Execs :
            ex[d].seen \in Terminal
            => (/\ ex[d].pc \in {"returned", "crashed"}
                /\ d \notin uploads
                /\ \A call \in encoderCalls : call.by # d))

\* C3 witness: the transcode_video message was processed twice, one after
\* the other: the first execution uploaded and completed the task, the
\* second found it COMPLETED and returned.
C3_Witness ==
    \E d1, d2 \in Execs :
        /\ d1 < d2
        /\ ex[d1].kind = "transcode" /\ ex[d1].pc = "returned"
        /\ ex[d2].kind = "transcode" /\ ex[d2].pc = "returned"
        /\ ex[d1].seen = "PROCESSING" /\ ex[d2].seen = "COMPLETED"
        /\ uploads = {d1}
        /\ row.status = "COMPLETED" /\ row.output_file = d1

\* C4: no two handler bodies are active for the task at the same time.
C4_OneBodyAtATime ==
    \A d1, d2 \in Execs : (InBody(d1) /\ InBody(d2)) => d1 = d2

\* C5: a COMPLETED row has an output_file and a FAILED row has an
\* error_message.
C5_TerminalFieldsSet ==
    /\ row.status = "COMPLETED" => row.output_file # Null
    /\ row.status = "FAILED" => row.error_message # NullText

C7_PredictionFailureReturnsFailed ==
    \A d \in Execs :
        ex[d].failed \in {"aggregate", "predict"}
        => (/\ ex[d].pc = "returned"
            /\ ex[d].output.status = "failed"
            /\ ex[d].output.error # "")

\* C8: a handler one of whose steps failed (the worker not crashing) ends by
\* returning, and the task is FAILED when it ends.
C8_FailedStepEndsInFailed ==
    [][\A d \in Execs :
          (Ends(d) /\ ex'[d].failed # "none")
          => (ex'[d].pc = "returned" /\ row'.status = "FAILED")]_vars

\* C9: if some row of the table has quality >= 95, select_best_row returns
\* the parameter and value of a row whose quality is the least of those
\* >= 95; otherwise it returns crf 16.
C9_SelectionRule ==
    selected # NoSelection
    => IF \E i \in DOMAIN table : table[i].quality >= 95
       THEN \E i \in DOMAIN table :
               /\ table[i].quality >= 95
               /\ \A j \in DOMAIN table :
                      table[j].quality >= 95
                      => table[i].quality <= table[j].quality
               /\ selected.parameter = table[i].parameter
               /\ selected.value = table[i].value
       ELSE selected = [parameter |-> "crf", value |-> 16]

\* C9 witness: a table with a row below the floor and rows of different
\* quality above it, the better one first, for which the rule has answered.
C9_Witness ==
    /\ selected # NoSelection
    /\ Len(table) = 3
    /\ table[1].quality = 96 /\ table[2].quality = 94 /\ table[3].quality = 95
    /\ table[1].value # table[3].value

\* An Analyze execution that returned what the prediction step gave.
Predicted(d) ==
    /\ ex[d].kind = "analyze"
    /\ ex[d].pc = "returned"
    /\ ex[d].output.status # "failed"

\* C10 as stated: when no row reaches 95 the Analyze result is crf 16 with
\* status success_fallback, and status success means a row >= 95 was selected.
C10_FallbackStatus ==
    \A d \in Execs :
        Predicted(d)
        => (/\ ~ex[d].highRows
               => ex[d].output = Output("crf", 16, "success_fallback", "")
            /\ ex[d].output.status = "success" => ex[d].highRows)

\* C10 as amended: when no row reaches 95 the Analyze result is crf 16 with
\* status success; every result of the prediction step has status success.
C10_FallbackIsSuccess ==
    \A d \in Execs :
        Predicted(d)
        => (/\ ex[d].output.status = "success"
            /\ ~ex[d].highRows => ex[d].output = Output("crf", 16, "success", ""))

\* C10 witness: an Analyze execution returned a prediction for which no row
\* reached 95.
C10_Witness ==
    \E d \in Execs : Predicted(d) /\ ~ex[d].highRows

\* C11: when analysis succeeded and no row of the grid was predicted at or
\* above 95, the encoder invocation of a Transcode given that Analyze result
\* has -crf 16 as its whole rate control.
C11_LowQualityEncodesCrf16 ==
    \A call \in encoderCalls :
        (\E a \in Execs :
            /\ Predicted(a) /\ ~ex[a].highRows
            /\ ex[call.by].output = ex[a].output)
        => RateControl(call) = <<"-crf", "16">>

\* C11 witness: an Analyze execution predicted no row at or above 95 and a
\* Transcode given its result ran the encoder.
C11_Witness ==
    \E call \in encoderCalls : \E a \in Execs :
        /\ Predicted(a) /\ ~ex[a].highRows
        /\ ex[call.by].kind = "transcode"
        /\ ex[call.by].output = ex[a].output

\* C17: when the encoder exited non-zero in a Transcode execution, the task
\* is FAILED when that execution returns, and the execution has uploaded no
\* object.
C17_EncoderFailureEndsFailed ==
    [][\A d \in Execs :
          (/\ ex[d].failed = "encode"
           /\ ex[d].pc = "commit" /\ ex'[d].pc = "returned")
          => (row'.status = "FAILED" /\ d \notin uploads')]_vars

\* The text part occurs in the text.
Contains(text, part) ==
    \E i \in 1..(Len(text) - Len(part) + 1) :
        SubSeq(text, i, i + Len(part) - 1) = part

\* C18: when the encoder exited non-zero, the error_message the handler puts
\* on the task, which its final commit stores with FAILED, contains what the
\* encoder wrote to its standard error.
C18_ErrorMessageCarriesStderr ==
    \A call \in encoderCalls :
        (call.returncode # 0 /\ ex[call.by].pc \in {"merge", "commit"})
        => /\ ex[call.by].task.status = "FAILED"
           /\ Contains(ex[call.by].task.error_message, call.stderr)

\* The rate control C19 expects for an Analyze result.
C19_RateControl(params) ==
    IF params.status = "success"
    THEN CASE params.parameter = "crf" /\ params.value = 16 -> <<"-crf", "16">>
           [] params.parameter = "crf" /\ params.value = 30 -> <<"-crf", "30">>
           [] params.parameter = "qp" /\ params.value = 25 -> <<"-qp", "25">>
           [] OTHER -> <<"-", "">>
    ELSE <<"-crf", "16">>

\* C19: the argument list of every encoder invocation is the binary, then
\* the input options ending with -i and the source URL, then -c:v libx265
\* -preset veryslow and the rate control (-<parameter> <value> of a success
\* result, -crf 16 otherwise), then the global options ending with the
\* output path.
C19_EncoderArguments ==
    \A call \in encoderCalls :
        call.args =
            <<"/usr/bin/ffmpeg",
              "-seekable", "1", "-reconnect_delay_max", "300",
              "-multiple_requests", "1",
              "-reconnect_on_http_error", "429,5xx",
              "-reconnect_on_network_error", "1",
              "-i", presigned_url,
              "-c:v", "libx265", "-preset", "veryslow">> \o
            C19_RateControl(ex[call.by].output) \o
            <<"-codec:a", "copy", "-sn", "-y", "-hide_banner",
              "-loglevel", "error", output_file_name(call.by)>>

\* C19 witness: the encoder ran for a Transcode given a success result that
\* selected a row of the grid.
C19_Witness ==
    \E call \in encoderCalls :
        /\ ex[call.by].output.status = "success"
        /\ ex[call.by].output.parameter = "qp"
        /\ ex[call.by].output.value = 25

\* C20: once a Transcode execution has left the block that holds its
\* temporary output file (after a successful upload, an encoder failure or
\* an upload failure), and when it has ended, the file does not exist.
C20_TempFileRemoved ==
    \A d \in Execs :
        (/\ ex[d].kind = "transcode"
         /\ ex[d].pc \in {"merge", "commit", "returned", "raised"})
        => \A name \in tempFiles : name # "/tmp/tmp" \o ToString(d) \o ".mp4"

\* C20 witness: two Transcode executions have returned, one after uploading
\* its output and one after its encoder or its upload failed, and no
\* temporary file is left.
C20_Witness ==
    /\ tempFiles = {}
    /\ \E d1, d2 \in Execs :
           /\ ex[d1].pc = "returned" /\ d1 \in uploads
           /\ ex[d2].pc = "returned" /\ ex[d2].failed \in {"encode", "upload"}

\* C12: GET /tasks/{id} of the task gives a download_url exactly when the
\* task is COMPLETED.
C12_DownloadUrlIffCompleted ==
    DownloadUrl(row) # "null" <=> row.status = "COMPLETED"

\* The i-th POST /tasks carried a file not detected as a video.
NotVideo(post) ==
    ~(Len(post.content_type) >= 6 /\ SubSeq(post.content_type, 1, 6) = "video/")

\* The key the i-th POST /tasks uploads its file under.
SourceKey(i) ==
    "source/" \o ToString(i) \o
    (IF posts[i].filename = "video.mp4" THEN ".mp4" ELSE "")

\* Nothing is stored for the i-th POST /tasks: no object, no row, no chain.
NothingStored(i) ==
    /\ SourceKey(i) \notin objects
    /\ \A k \in DOMAIN tasks : tasks[k].source_file # SourceKey(i)
    /\ \A n \in DOMAIN queue : queue[n].source_file # SourceKey(i)

C14_UploadFailureBadGateway ==
    /\ [][\A i \in DOMAIN posts :
            (posts[i].pc = "upload" /\ posts'[i].failed = "upload")
            => (/\ response' = [code |-> 502, post |-> i]
                /\ posts'[i].pc = "done"
                /\ tasks' = tasks /\ queue' = queue)]_vars
    /\ [](\A i \in DOMAIN posts :
            posts[i].failed = "upload"
            => (/\ posts[i].pc = "done"
                /\ \A k \in DOMAIN tasks : tasks[k].source_file # SourceKey(i)
                /\ \A n \in DOMAIN queue : queue[n].source_file # SourceKey(i)))

\* C14 witness: the upload of a POST /tasks has just failed.
C14_Witness ==
    /\ response.code = 502
    /\ \E i \in DOMAIN posts : posts[i].failed = "upload" /\ response.post = i

RunsOf(name, idx) == {r \in runs : r.processor = name /\ r.frame = idx}

\* C21: for every decoded frame every registered processor, Y and TI
\* included, is executed exactly once (never twice, and once by the time the
\* frame's process_one_frame has returned), and a processor with a
\* dependency runs only once that dependency has produced its result for the
\* same frame.
C21_EachProcessorOnce ==
    \A idx \in DOMAIN jobs : \A name \in processors :
        /\ Cardinality(RunsOf(name, idx)) <= 1
        /\ jobs[idx].st = "finished" => Cardinality(RunsOf(name, idx)) = 1
        /\ \A r \in RunsOf(name, idx) :
               /\ r.matrix # Absent
               /\ depends_on(name) # "None" => RunsOf(depends_on(name), idx) # {}

\* C21, the half that holds: no processor runs before its dependency has
\* produced a result for the same frame.
C21_DependencyFirst ==
    \A r \in runs :
        /\ r.matrix # Absent
        /\ depends_on(r.processor) # "None" =>
               RunsOf(depends_on(r.processor), r.frame) # {}

\* C22: the matrix a calculator that depends on TI receives is, for frame
\* i >= 1, the Y of frame i minus the Y of frame i - 1, and for frame 0
\* None.
C22_TIMatrix ==
    \A r \in runs :
        r.processor \in feature_calculators /\ depends_on(r.processor) = "TI" =>
            r.matrix = IF r.frame = 0 THEN None
                       ELSE Difference(r.frame, r.frame - 1)

\* The threads that have read self.prev_frame in TICalculator.extract and
\* have not yet written it.
InsideTI ==
    {<<"decode", decode.idx>> : x \in {y \in {0} : decode.pc = "TI_write"}}
        \cup {<<"pool", idx>> : idx \in {i \in DOMAIN jobs : jobs[i].node["TI"].st = "reading"}}

\* C23: TI is invoked on the decode thread only, its successive invocations
\* get the frames in strict decode order, and no two threads are inside
\* TICalculator.extract, reading and writing prev_frame, at once.
C23_TIOnDecodeThread ==
    /\ \A k \in DOMAIN ti.calls : ti.calls[k].thread = "decode"
    /\ \A k, l \in DOMAIN ti.calls : k < l => ti.calls[k].frame < ti.calls[l].frame
    /\ Cardinality(InsideTI) <= 1

\* The frames a matrix was computed from.
FramesOf(matrix) ==
    IF matrix \in {None, Absent} THEN {}
    ELSE IF matrix.name = "TI" THEN {matrix.frame, matrix.prev}
    ELSE {matrix.frame}

\* C24: the matrix a calculator is given is a result its extractor produced
\* in the process of the same frame, computed from that frame (and, TI being
\* a difference of successive frames, the frame before it) and from no
\* other frame.
C24_SameFrameMatrix ==
    \A r \in runs :
        r.processor \in feature_calculators =>
            /\ r.matrix # Absent
            /\ \E e \in RunsOf(depends_on(r.processor), r.frame) : e.result = r.matrix
            /\ FramesOf(r.matrix) \subseteq {r.frame, r.frame - 1}

\* C24, the part that holds: a calculator is given a result its extractor
\* produced in the process of the same frame, and for a stateless extractor
\* that result is computed from that frame alone.
C24_OwnProcessMatrix ==
    \A r \in runs :
        r.processor \in feature_calculators =>
            /\ r.matrix # Absent
            /\ \E e \in RunsOf(depends_on(r.processor), r.frame) : e.result = r.matrix
            /\ depends_on(r.processor) # "TI" => FramesOf(r.matrix) = {r.frame}

\* The frame a row was computed from.
FrameOf(item) == item["SI_mean"].of.frame

\* C25: the rows analyze_file returns are in decode order.
C25_RowsInDecodeOrder ==
    decode.pc = "returned" =>
        \A k, l \in DOMAIN rows : k < l => FrameOf(rows[k]) < FrameOf(rows[l])

\* C26: at most PendingLimit frames are submitted and not yet collected, and
\* the decode loop holds no new frame while PendingLimit frames are in flight.
C26_AtMostTenInFlight ==
    /\ decode.pc # "returned" => Cardinality(decode.pending) <= PendingLimit
    /\ decode.pc \in {"TI", "TI_write"} => Cardinality(decode.pending) < PendingLimit

(* ------------------ properties of shutdown and recovery ---------------- *)

\* C27: when the worker that runs a Transcode handler for a PROCESSING task
\* is shut down, the task has a terminal status once the worker has stopped
\* (the encoder was let finish, or it was killed and the task set FAILED).
C27_ShutdownLeavesTerminal ==
    [][\A d \in Execs :
          /\ ex[d].kind = "transcode"
          /\ InBody(d)
          /\ row.status = "PROCESSING"
          /\ ex'[d].pc = "stopped"
          => row'.status \in Terminal]_vars

\* Analyze execution a has returned the value v.
Returned(a, v) ==
    /\ ex[a].kind = "analyze"
    /\ ex[a].pc = "returned"
    /\ ex[a].output = v

Quiescent ==
    /\ ex # << >>
    /\ \A d \in Execs : ex[d].pc \in Ended \ {"crashed"}
    /\ \A params \in chain :
           \E d \in Execs : ex[d].kind = "transcode" /\ ex[d].output = params

\* The worker of some execution died while the task was PROCESSING, and its
\* message was delivered again.
Recovered == \E d \in Execs : ex[d].pc = "redelivered"

\* C29: after a worker crash while the task was PROCESSING and the
\* redelivery of the job, the redelivered handler claims the task again and
\* runs its stage from the start, and the task reaches COMPLETED or FAILED:
\* when nothing is left to run, the task is not PROCESSING.
C29_RecoveredTaskEnds ==
    Recovered /\ Quiescent => row.status \in Terminal

\* C29 as a liveness property of SpecRecover.
C29_EventuallyTerminal ==
    Recovered ~> row.status \in Terminal

\* C29, the part that holds: the redelivered handler finds the task
\* PROCESSING, claims it without writing the row, and starts its stage at
\* the first step.
C29_ReclaimRestarts ==
    [][\A d \in Execs :
          /\ d > 1
          /\ ex[d - 1].pc = "redelivered"
          /\ ex[d].pc = "claim"
          /\ ex'[d].pc # "claim"
          => /\ row.status = "PROCESSING"
             /\ ex'[d].pc = "claim_commit"
             /\ row' = row]_vars

\* C29, without the failures of C7 and C8: once no handler has raised, a
\* recovered task ends COMPLETED or FAILED.
C29_EndsUnlessRaised ==
    Recovered /\ Quiescent /\ (\A d \in Execs : ex[d].pc # "raised")
        => row.status \in Terminal

\* C30: output_file and output_size are null unless the task is COMPLETED,
\* and error_message is null unless it is FAILED.
C30_FieldsNullUnlessStatus ==
    /\ row.status # "COMPLETED" =>
           row.output_file = Null /\ row.output_size = Null
    /\ row.status # "FAILED" => row.error_message = NullText

(* ------------------------------ updated_at ---------------------------- *)

\* Execution d commits its claim in this step.
ClaimStep(d) ==
    /\ ex[d].pc = "claim_commit"
    /\ ex'[d].pc = "presign"

\* Execution d commits its completion (COMPLETED or FAILED) in this step.
CompletionStep(d) ==
    /\ ex[d].pc = "commit"
    /\ ex'[d].pc = "returned"

\* C31: every claim and every completion a handler commits sets updated_at
\* to the time of the commit, the re-claim of a PROCESSING task included.
C31_ClaimAndCompletionRefresh ==
    [][\A d \in Execs :
          ClaimStep(d) \/ CompletionStep(d) => updated_at' = utcnow]_vars

\* C31, the part that holds: a commit that emits an UPDATE which does not
\* set updated_at itself refreshes the column.
C31_UpdateRefreshes ==
    [][\A d \in Execs :
          \/ ClaimStep(d) /\ ex[d].seen # "PROCESSING"
          \/ /\ CompletionStep(d)
             /\ ex[d].loaded_at \subseteq {ex[d].base_at}
             /\ ex[d].task # ex[d].base
          => updated_at' = utcnow]_vars

(* ---------------------------- transactions ---------------------------- *)

\* The steps of a handler that reach outside the process: presigning,
\* analyzing the frames, running the encoder, uploading.
OutsideSteps == {"presign", "analyze", "encode", "upload"}

\* C32: no execution has a database transaction open while it presigns,
\* analyzes, encodes or uploads.
C32_NoTransactionAcrossIO ==
    \A d \in Execs : ex[d].pc \in OutsideSteps => ex[d].session = "closed"

\* C32: every write of the row is the commit of a transaction that the
\* writer began at its previous step, a read of the row, and that is over
\* after the write.
C32_WriteIsOwnTransaction ==
    [][row' # row =>
          \E d \in Execs :
              /\ ex[d].session = "open"
              /\ ex[d].pc \in {"claim_commit", "commit"}
              /\ ex'[d].session = "closed"]_vars

\* An execution that committed its claim is uploading the output.
C32_Witness ==
    \E d \in Execs :
        /\ ex[d].pc = "upload"
        /\ ex[d].session = "closed"
        /\ row.status = "PROCESSING"

(* ------------------------------ thread pools -------------------------- *)

\* The processor invocations that are executing: those of the inner pools
\* of all frames, and the inline TICalculator.extract of the decode thread.
Invocations ==
    {<<i, n>> \in (DOMAIN jobs) \X GraphNodes : n \in Executing(i)}
    \cup (IF decode.pc = "TI_write" THEN {<<decode.idx, "inline">>} ELSE {})

\* C33: at no time do more processor invocations execute than one pool has
\* worker threads.
C33_AtMostWorkersExecute == Cardinality(Invocations) <= MaxWorkers

\* C33, the part that holds: the processors of one frame that execute at
\* the same time are at most as many as its pool has threads.
C33_AtMostWorkersPerFrame ==
    \A i \in DOMAIN jobs : Cardinality(Executing(i)) <= MaxWorkers

(* --------------------------- GET /tasks/{id} -------------------------- *)

\* The last step answered a GET /tasks/{id} request.
IsGetTask(r) == "task_id" \in DOMAIN r

\* C34: the download URL of a COMPLETED task is the one the object store
\* signed, in this request, for the task's output_file in the configured
\* bucket with the configured expiry; for a task in another status the
\* object store is not asked and no URL is returned.
C34_UrlForOwnOutput ==
    IsGetTask(response) /\ response.code = 200 =>
        LET task == response.task
            request == [ClientMethod |-> "get_object", Bucket |-> S3_BUCKET,
                        Key |-> task.output_file,
                        ExpiresIn |-> PRESIGNED_URL_EXPIRATION]
        IN  /\ task.status = "COMPLETED" /\ task.download_url # NullText =>
                   /\ presigned = {request}
                   /\ task.download_url = SignedUrl(request)
                   /\ task.output_file = tasks[task.id + 1].output_file
            /\ task.status # "COMPLETED" =>
                   /\ presigned = {}
                   /\ task.download_url = NullText

\* GET /tasks/{id} of a COMPLETED task has been answered with a URL.
C34_Witness ==
    /\ IsGetTask(response) /\ response.code = 200
    /\ response.task.status = "COMPLETED"
    /\ response.task.download_url # NullText
    /\ presigned # {}

\* C38: GET /tasks/{id} for an id without a row answers 404 and asks the
\* object store for nothing, and no GET request changes a row.
C38_MissingTaskNotFound ==
    [][IsGetTask(response') /\ response' # response =>
          /\ response'.task_id + 1 \notin DOMAIN tasks =>
                 response'.code = 404 /\ presigned' = {}
          /\ tasks' = tasks]_vars

\* GET /tasks/{id} for an id without a row has been answered, the table
\* holding other rows.
C38_Witness ==
    /\ IsGetTask(response) /\ response.code = 404
    /\ response.task_id + 1 \notin DOMAIN tasks
    /\ tasks # << >>

(* ------------------------------ the output ---------------------------- *)

\* C35: a COMPLETED task names in output_file a key under which a Transcode
\* execution uploaded a file, and in output_size the size of that file.
C35_CompletedOutputUploaded ==
    row.status = "COMPLETED" =>
        /\ row.output_file \in uploads
        /\ row.output_size = objectSizes[row.output_file]

\* C35, the part that holds: the output_file of a row is never a key under
\* which nothing was uploaded.
C35_OutputFileUploaded ==
    row.output_file # Null => row.output_file \in uploads

(* ------------------------- the rows of analyze_file -------------------- *)

\* The rows of the list that were computed from frame f.
RowsOf(f) == {k \in DOMAIN rows : FrameOf(rows[k]) = f}

\* C36: analyze_file returns only if no process_one_frame call raised, and
\* then its list holds one row of every frame decoded and no other.
C36_OneRowPerFrame ==
    /\ decode.pc = "returned" =>
           /\ decode.raising = {}
           /\ Len(rows) = decode.frames
           /\ \A f \in 0..(decode.frames - 1) : Cardinality(RowsOf(f)) = 1
    /\ decode.pc = "raised" => decode.raising # {}

\* C36: when every process_one_frame call has ended and the decode thread
\* has left the pool's with block, analyze_file has returned, or raised.
C36_EndsReturnedOrRaised ==
    /\ Done(DOMAIN jobs) = DOMAIN jobs
    /\ decode.pc \notin {"next", "TI", "TI_write", "wait", "drain"}
    => decode.pc = IF decode.raising = {} THEN "returned" ELSE "raised"

\* analyze_file has returned the rows of a video whose frames filled the
\* window, the first of them collected by wait() and not in decode order.
C36_Witness ==
    /\ decode.pc = "returned"
    /\ Len(rows) > PendingLimit
    /\ decode.pending # DOMAIN jobs
    /\ FrameOf(rows[1]) > FrameOf(rows[2])

\* analyze_file has raised on a video one frame of which makes a
\* processor raise.
C36_WitnessRaised ==
    /\ decode.pc = "raised"
    /\ decode.raising # {}
    /\ Done(DOMAIN jobs) = DOMAIN jobs

(* --------------------------- the rate control ------------------------- *)

\* The rate controls the grid PARAMS and the fallback allow.
AllowedRateControls ==
    {<<"-crf", ToString(v)>> : v \in CrfFirst..CrfLast}
    \cup {<<"-qp", ToString(v)>> : v \in QpFirst..QpLast}
    \cup {<<"-crf", ToString(FallbackCrf)>>}

\* C37: every encoder invocation of a Transcode given an Analyze result has
\* one rate-control flag with its value, which is -crf 17..30, -qp 25..40
\* or -crf 16.
C37_OneRateControl ==
    \A call \in encoderCalls :
        (ex[call.by].kind = "transcode" /\ ex[call.by].output \in chain)
        => RateControl(call) \in AllowedRateControls

\* C37: no value the Analyze handler has returned makes encode_params give
\* a parameter group without a rate control.
C37_EveryResultHasRateControl ==
    \A params \in chain :
        SubSeq(encode_params(params), 5, Len(encode_params(params)))
            \in AllowedRateControls

\* The encoder ran, with the fallback as its rate control, for a Transcode
\* given the result of an Analyze whose frame analysis failed.
C37_Witness ==
    \E call \in encoderCalls :
        /\ ex[call.by].kind = "transcode"
        /\ ex[call.by].output \in chain
        /\ ex[call.by].output.status = "failed"
        /\ RateControl(call) = <<"-crf", ToString(FallbackCrf)>>

(* ------------------------- the offline analyzer ----------------------- *)

\* Some thread of the offline analyze_file can take a step: a pool thread
\* can take a work item or return from one, or the loop over
\* as_completed(futures) has a future to handle.
OfflineCanStep ==
    \E name \in OfflineNames :
        \/ /\ offline.task[name] = "queued"
           /\ \A other \in OfflineNames :
                  Place(other) < Place(name) => offline.task[other] # "queued"
           /\ Cardinality(OfflineRunning) < offline.workers
        \/ offline.task[name] = "running" /\ depends_on(name) \in offline.set
        \/ offline.task[name] = "finished"

SpecOfflineFair == SpecOffline /\ WF_vars(NextOffline)

\* C39, as a liveness property: the offline analyze_file gets through every
\* frame and returns.
C39_EveryFrameEnds == <>(offline.pc = "returned")

\* C39: every depends_on of the list names an extractor placed earlier.
C39_DependenciesEarlier ==
    \A name \in OfflineNames :
        depends_on(name) # "None" =>
            /\ depends_on(name) \in OfflineNames
            /\ IsExtractor(depends_on(name))
            /\ Place(depends_on(name)) < Place(name)

C39_WitnessReturned ==
    /\ offline.pc = "returned"
    /\ offline.workers = 1
    /\ offline.frames = MaxOfflineFrames

====
